---------------------------- MODULE Spec2Model ----------------------------
(***************************************************************************)
(* A model of the AWS diagnostic agent's collection-and-analysis pipeline: *)
(* agent/orchestrator.py (run_collection), agent/analysis/pre_analyzer.py, *)
(* agent/analysis/temporal_analyzer.py and agent/analysis/analyzer.py.     *)
(*                                                                         *)
(* Numbers: Python floats are modelled by integers; a confidence is kept   *)
(* in hundredths (0.9 is 90).  A resource identifier is the sequence of    *)
(* its '/'-separated segments, so that str.split('/') is the identity on   *)
(* the model's representation and indexing is what the code does; the      *)
(* ':'-separated parts of a segment are given by ColonParts.               *)
(***************************************************************************)
EXTENDS Integers, Sequences, FiniteSets, TLC

VARIABLES
    pc,             \* position of the main thread in run_collection
    threads,        \* settings.threads
    max_workers,    \* orchestrator.py:29
    coll_i,         \* index of the collector the discovery loop is at
    discovered,     \* identifiers of its discover() still to be submitted
    futures,        \* orchestrator.py:30, the submitted tasks, in order
    fstate,         \* state of each future, by position in futures
    fresult,        \* what a finished future holds (a snapshot, or Raised)
    prefinished,    \* as_completed: futures finished before it was entered
    finishedq,      \* as_completed: waiter.finished_futures, in order
    unyielded,      \* as_completed: futures not yet yielded
    results,        \* orchestrator.py:28
    exc,            \* the exception propagating out of the command
    traceback,      \* the function that raised it
    collect_calls,  \* number of collect() invocations, by future
    discover_calls, \* number of discover() invocations, by collector
    failed_log,     \* futures reported by "A collector failed"
    summary,        \* orchestrator.py:47
    run_payload,    \* orchestrator.py:52, what the report writers receive
    reports,        \* the report files the command has written
    command,        \* the command that runs: "collect", "reanalyze", or ""
    llm_provider,   \* settings.llm_provider is set
    temporal_lookback_days, \* settings.temporal_lookback_days
    static_findings,    \* analyzer.py:30
    temporal_findings,  \* analyzer.py:33
    all_findings,       \* analyzer.py:38
    llm_calls,          \* number of calls of the summarizer (client.chat)
    analyzer_calls,     \* calls run_analysis made of run_pre_analysis, of analyze
    trend_call,     \* arguments of a direct call of analyze_trend_with_baseline
    returned,       \* what the direct calls of an analyzer function returned
    call_findings,  \* temporal_analyzer.py:83, findings of the call of analyze
    call_i          \* the snapshot the loop of that call is at (0: no call)

pool_vars == <<futures, fstate, fresult, prefinished, finishedq, unyielded,
               collect_calls, discover_calls, failed_log, discovered>>

settings_vars == <<command, threads, llm_provider, temporal_lookback_days>>

analysis_vars == <<static_findings, temporal_findings, all_findings,
                   llm_calls, analyzer_calls, summary>>

error_vars == <<exc, traceback>>

call_vars == <<trend_call, returned, call_findings, call_i>>

report_vars == <<run_payload, reports>>

vars == <<pc, max_workers, coll_i, results, report_vars, pool_vars,
          error_vars, settings_vars, analysis_vars, call_vars>>

-----------------------------------------------------------------------------
(* Bounds of the model *)

\* settings.threads ranges over 0..MaxThreads
MaxThreads == 1
\* os.cpu_count() ranges over 1..MaxCpu
MaxCpu == 7
\* a discover() call returns at most MaxRes identifiers
MaxRes == 2
\* at most MaxTasks tasks are submitted in one pass
MaxTasks == 2
\* a report that is re-analysed holds at most MaxSnaps snapshots
MaxSnaps == 2
\* an ECS snapshot of a report lists at most MaxServices services
MaxServices == 2
\* a history handed to analyze_trend_with_baseline has at most MaxHist samples
MaxHist == 3
\* an analyzer function is called at most MaxCalls times on the same input
MaxCalls == 2

-----------------------------------------------------------------------------
(* Program constants *)

\* the ceiling of the auto-computed pool size
PoolCeiling == 32
\* the multiple of the CPU count the auto-computed pool size uses
CpuFactor == 5

Min(a, b) == IF a <= b THEN a ELSE b

-----------------------------------------------------------------------------
(* The collector registry and the collaborators' outputs *)

\* get_collectors(): the registered classes, in the order in which
\* _autoload_collectors imports their modules (by module name).
Collectors ==
    <<"alb", "cloudformation", "ecs", "elasticache", "opensearch", "rds",
      "waf">>

NumCollectors == Len(Collectors)

\* The k-th resource identifier of a category, as its '/'-segments.  The web
\* ACLs are identified by their ARNs, arn:aws:wafv2:REGION:ACCOUNT:SCOPE/
\* webacl/NAME/ID: the first is a regional one, the others CloudFront ones.
ResourceId(ns, k) ==
    CASE ns = "alb" -> <<"arn:loadbalancer", "app", IF k = 1 THEN "lb1" ELSE "lb2", "id">>
      [] ns = "cloudformation" -> <<IF k = 1 THEN "stack1" ELSE "stack2">>
      [] ns = "ecs" -> <<"arn:cluster", IF k = 1 THEN "c1" ELSE "c2">>
      [] ns = "elasticache" -> <<IF k = 1 THEN "redis-a" ELSE "memcached-b">>
      [] ns = "opensearch" -> <<IF k = 1 THEN "dom1" ELSE "dom2">>
      [] ns = "rds" -> <<IF k = 1 THEN "db-main" ELSE "db-read">>
      [] OTHER -> IF k = 1
                  THEN <<"arn:aws:wafv2:us-east-2:123456789012:regional",
                         "webacl", "acl1", "id1">>
                  ELSE <<"arn:aws:wafv2:us-east-1:123456789012:global",
                         "webacl", "acl2", "id2">>

\* What discover() of a category can return: the first n identifiers.
DiscoverOutputs(ns) ==
    { [k \in 1..n |-> ResourceId(ns, k)] : n \in 0..MaxRes }

-----------------------------------------------------------------------------
(* Snapshots and findings *)

\* A snapshot is a Python dict: a function from its keys.
\* dict.get(key, default)
Get(item, key, default) == IF key \in DOMAIN item THEN item[key] ELSE default

\* A rule function's outcome: the exception it raised ("" when it returned)
\* and what it returned, as a sequence (Optional: zero or one finding).
Return(fs) == [raised |-> "", findings |-> fs]
Raise(kind) == [raised |-> kind, findings |-> <<>>]

\* "word" in resource, for the substrings the rules test: the vocabulary's
\* segments that contain them.
SegmentsContaining(word) ==
    CASE word = "read" -> {"db-read", "read"}
      [] word = "redis" -> {"redis-a", "redis"}
      [] OTHER -> {}

Contains(resource, word) ==
    \E i \in DOMAIN resource : resource[i] \in SegmentsContaining(word)

StaticFinding(service, resource_id, issue, metric, strength, confidence) ==
    [finding_type |-> "static", service |-> service,
     resource_id |-> resource_id, issue |-> issue, metric |-> metric,
     strength |-> strength, confidence |-> confidence]

-----------------------------------------------------------------------------
(* agent/analysis/pre_analyzer.py *)

\* item["resource"].split('/')[-2], or the whole resource on IndexError
short_name(resource) ==
    IF Len(resource) >= 2 THEN <<resource[Len(resource) - 1]>> ELSE resource

\* analyze_alb with its two checks in the other order, which the priority
\* order of the rules must reject.
analyze_alb_latency_first(item) ==
    IF "resource" \notin DOMAIN item THEN Raise("KeyError")
    ELSE IF Get(item, "avg_latency_ms", 0) > 100
    THEN Return(<<StaticFinding("ALB", short_name(item["resource"]),
                    "High Target Response Time", "Avg Latency (ms)",
                    "Moderate", 70)>>)
    ELSE IF Get(item, "http_5xx_errors", 0) > 20
    THEN Return(<<StaticFinding("ALB", short_name(item["resource"]),
                    "High 5xx Error Count", "HTTP 5xx Errors", "High", 90)>>)
    ELSE Return(<<>>)

analyze_alb(item) ==
    IF "resource" \notin DOMAIN item THEN Raise("KeyError")
    ELSE IF Get(item, "http_5xx_errors", 0) > 20
    THEN Return(<<StaticFinding("ALB", short_name(item["resource"]),
                    "High 5xx Error Count", "HTTP 5xx Errors", "High", 90)>>)
    ELSE IF Get(item, "avg_latency_ms", 0) > 100
    THEN Return(<<StaticFinding("ALB", short_name(item["resource"]),
                    "High Target Response Time", "Avg Latency (ms)",
                    "Moderate", 70)>>)
    ELSE Return(<<>>)

analyze_rds(item) ==
    IF "resource" \notin DOMAIN item THEN Raise("KeyError")
    ELSE IF ~Contains(item["resource"], "read")
            /\ Get(item, "cpu_utilization", 0) > 75
    THEN Return(<<StaticFinding("RDS", item["resource"],
                    "High CPU Utilization on Primary DB",
                    "CPU Utilization (%)", "High", 90)>>)
    ELSE IF Contains(item["resource"], "read")
            /\ Get(item, "cpu_utilization", 0) > 20
    THEN Return(<<StaticFinding("RDS", item["resource"],
                    "Elevated CPU on Read Replica", "CPU Utilization (%)",
                    "Moderate", 70)>>)
    ELSE Return(<<>>)

\* analyze_elasticache reading an absent hit rate as 0, which the neutral
\* defaults must reject.
analyze_elasticache_zero_default(item) ==
    IF "resource" \notin DOMAIN item THEN Raise("KeyError")
    ELSE IF Contains(item["resource"], "redis")
            /\ Get(item, "cache_hit_rate", 0) < 80
    THEN Return(<<StaticFinding("ElastiCache", item["resource"],
                    "Low Cache Hit Rate", "Cache Hit Rate (%)", "High", 85)>>)
    ELSE IF Get(item, "evictions", 0) > 1000
    THEN Return(<<StaticFinding("ElastiCache", item["resource"],
                    "High Eviction Count", "Evictions (Count)", "High", 90)>>)
    ELSE Return(<<>>)

analyze_elasticache(item) ==
    IF "resource" \notin DOMAIN item THEN Raise("KeyError")
    ELSE IF Contains(item["resource"], "redis")
            /\ Get(item, "cache_hit_rate", 100) < 80
    THEN Return(<<StaticFinding("ElastiCache", item["resource"],
                    "Low Cache Hit Rate", "Cache Hit Rate (%)", "High", 85)>>)
    ELSE IF Get(item, "evictions", 0) > 1000
    THEN Return(<<StaticFinding("ElastiCache", item["resource"],
                    "High Eviction Count", "Evictions (Count)", "High", 90)>>)
    ELSE Return(<<>>)

\* the loop of analyze_ecs from service number i on
RECURSIVE analyze_ecs_from(_, _, _)
analyze_ecs_from(item, services, i) ==
    IF i > Len(services) THEN Return(<<>>)
    ELSE IF Get(services[i], "running_tasks", 0)
              < Get(services[i], "desired_tasks", 0)
    THEN IF "resource" \notin DOMAIN item \/ "name" \notin DOMAIN services[i]
         THEN Raise("KeyError")
         ELSE Return(<<StaticFinding("ECS",
                         Append(item["resource"], services[i]["name"]),
                         "Service Underprovisioned",
                         "Running Tasks vs. Desired", "High", 100)>>)
    ELSE analyze_ecs_from(item, services, i + 1)

analyze_ecs(item) == analyze_ecs_from(item, Get(item, "services", <<>>), 1)

analyze_opensearch(item) ==
    IF Get(item, "cluster_status_red", 0) > 0
    THEN IF "resource" \notin DOMAIN item THEN Raise("KeyError")
         ELSE Return(<<StaticFinding("OpenSearch", item["resource"],
                         "Cluster in Red State", "Cluster Status",
                         "High", 100)>>)
    ELSE IF Get(item, "cluster_status_yellow", 0) > 0
    THEN IF "resource" \notin DOMAIN item THEN Raise("KeyError")
         ELSE Return(<<StaticFinding("OpenSearch", item["resource"],
                         "Cluster in Yellow State", "Cluster Status",
                         "Moderate", 80)>>)
    ELSE Return(<<>>)

failed_states == {"CREATE_FAILED", "ROLLBACK_COMPLETE", "UPDATE_ROLLBACK_COMPLETE"}

analyze_cloudformation(item) ==
    IF Get(item, "status", "None") \in failed_states
    THEN IF "resource" \notin DOMAIN item THEN Raise("KeyError")
         ELSE Return(<<StaticFinding("CloudFormation", item["resource"],
                         "Stack in Failed State", "Stack Status",
                         "High", 100)>>)
    ELSE Return(<<>>)

\* the keys of ANALYZER_MAP
ANALYZER_MAP ==
    {"alb", "rds", "elasticache", "ecs", "opensearch", "cloudformation"}

\* ANALYZER_MAP[namespace](item)
analyzer_func(namespace, item) ==
    CASE namespace = "alb" -> analyze_alb(item)
      [] namespace = "rds" -> analyze_rds(item)
      [] namespace = "elasticache" -> analyze_elasticache(item)
      [] namespace = "ecs" -> analyze_ecs(item)
      [] namespace = "opensearch" -> analyze_opensearch(item)
      [] OTHER -> analyze_cloudformation(item)

\* A loop body that indexes ANALYZER_MAP with the namespace, which the
\* silent skip of the categories without rules must reject.
pre_analysis_item_indexing(item) ==
    IF "namespace" \notin DOMAIN item THEN Return(<<>>)
    ELSE IF item["namespace"] \in ANALYZER_MAP
    THEN analyzer_func(item["namespace"], item)
    ELSE Raise("KeyError")

\* One iteration of run_pre_analysis's loop: what the item adds.
pre_analysis_item(item) ==
    IF Get(item, "namespace", "None") \in ANALYZER_MAP
    THEN analyzer_func(item["namespace"], item)
    ELSE Return(<<>>)

\* run_pre_analysis from item number i on, with the findings so far: an
\* exception of a rule function ends the loop and propagates.
RECURSIVE run_pre_analysis_from(_, _, _)
run_pre_analysis_from(collected_data, i, findings) ==
    IF i > Len(collected_data) THEN Return(findings)
    ELSE LET r == pre_analysis_item(collected_data[i])
         IN IF r.raised # "" THEN Raise(r.raised)
            ELSE run_pre_analysis_from(collected_data, i + 1,
                                       findings \o r.findings)

\* A run_pre_analysis that puts each new finding in front of the earlier
\* ones, which the order of the findings must reject.
RECURSIVE run_pre_analysis_newest_first_from(_, _, _)
run_pre_analysis_newest_first_from(collected_data, i, findings) ==
    IF i > Len(collected_data) THEN Return(findings)
    ELSE LET r == pre_analysis_item(collected_data[i])
         IN IF r.raised # "" THEN Raise(r.raised)
            ELSE run_pre_analysis_newest_first_from(collected_data, i + 1,
                                                    r.findings \o findings)

run_pre_analysis_newest_first(collected_data) ==
    run_pre_analysis_newest_first_from(collected_data, 1, <<>>)

run_pre_analysis(collected_data) ==
    run_pre_analysis_from(collected_data, 1, <<>>)

-----------------------------------------------------------------------------
(* agent/analysis/temporal_analyzer.py *)

\* the default of threshold_std_dev (2.0), in tenths
DefaultThreshold == 20

RECURSIVE SumSeq(_)
SumSeq(xs) == IF xs = <<>> THEN 0 ELSE Head(xs) + SumSeq(Tail(xs))

RECURSIVE SumSquares(_)
SumSquares(xs) ==
    IF xs = <<>> THEN 0 ELSE Head(xs) * Head(xs) + SumSquares(Tail(xs))

\* With n samples of sum S: current - mean = Deviation / n, and the sample
\* variance is Spread / (n * (n - 1)).
Deviation(current_value, hs) == Len(hs) * current_value - SumSeq(hs)
Spread(hs) == Len(hs) * SumSquares(hs) - SumSeq(hs) * SumSeq(hs)

\* abs(z_score) in tenths, rounded down, and saturated at cap: the largest
\* m <= cap with (m / 10)^2 <= (current - mean)^2 / variance.
RECURSIVE ZTenthsFrom(_, _, _, _)
ZTenthsFrom(m, cap, current_value, hs) ==
    IF m < cap
       /\ (m + 1) * (m + 1) * Len(hs) * Spread(hs)
            <= 100 * Deviation(current_value, hs)
                   * Deviation(current_value, hs) * (Len(hs) - 1)
    THEN ZTenthsFrom(m + 1, cap, current_value, hs)
    ELSE m

abs_z_score(current_value, hs, cap) == ZTenthsFrom(0, cap, current_value, hs)

\* A notice that is also attached when the history is as long as expected,
\* which the data-quality annotation must reject.
quality_notice_up_to_expected(data_points_count, total_runs) ==
    IF total_runs > 0 /\ data_points_count <= total_runs
    THEN <<data_points_count, total_runs>>
    ELSE <<>>

\* the quality notice: "" as <<>>, and the note as <<available, expected>>
quality_notice(data_points_count, total_runs) ==
    IF total_runs > 0 /\ data_points_count < total_runs
    THEN <<data_points_count, total_runs>>
    ELSE <<>>

Trend(strength, confidence, notice) ==
    [strength |-> strength, confidence |-> confidence,
     quality_notice |-> notice]

\* Variants of analyze_trend_with_baseline that the properties of the trend
\* function must tell from it: min_samples is the least length of a history
\* that is evaluated, flat_any_direction says whether a step off a constant
\* history is reported whatever its direction, slack is what abs(z_score)
\* must exceed the threshold by (in tenths), and ceiling caps the confidence.
trend_variant(current_value, historical_values, total_runs, threshold_std_dev, higher_is_worse, min_samples, flat_any_direction, slack, ceiling) ==
    IF Len(historical_values) < min_samples THEN <<>>
    ELSE LET notice == quality_notice(Len(historical_values), total_runs)
             dev == Deviation(current_value, historical_values)
             z == abs_z_score(current_value, historical_values,
                              threshold_std_dev + 20)
             is_bad_trend == (dev > 0 /\ higher_is_worse)
                             \/ (dev < 0 /\ ~higher_is_worse)
         IN IF Spread(historical_values) = 0
            THEN IF dev # 0 /\ (flat_any_direction \/ is_bad_trend)
                 THEN <<Trend("High", 95, notice)>> ELSE <<>>
            ELSE IF z >= threshold_std_dev + slack /\ is_bad_trend
            THEN <<Trend(IF z >= threshold_std_dev + 10 THEN "High"
                         ELSE "Moderate",
                         Min(90 + (z - threshold_std_dev), ceiling), notice)>>
            ELSE <<>>

trend_from_two_samples(current_value, historical_values, total_runs, threshold_std_dev, higher_is_worse) ==
    trend_variant(current_value, historical_values, total_runs,
                  threshold_std_dev, higher_is_worse, 2, TRUE, 0, 99)

trend_flat_one_direction(current_value, historical_values, total_runs, threshold_std_dev, higher_is_worse) ==
    trend_variant(current_value, historical_values, total_runs,
                  threshold_std_dev, higher_is_worse, 3, FALSE, 0, 99)

trend_above_threshold_only(current_value, historical_values, total_runs, threshold_std_dev, higher_is_worse) ==
    trend_variant(current_value, historical_values, total_runs,
                  threshold_std_dev, higher_is_worse, 3, TRUE, 1, 99)

trend_uncapped_confidence(current_value, historical_values, total_runs, threshold_std_dev, higher_is_worse) ==
    trend_variant(current_value, historical_values, total_runs,
                  threshold_std_dev, higher_is_worse, 3, TRUE, 0, 110)

\* Returns zero or one trend; threshold_std_dev is in tenths, confidence
\* in hundredths (rounded down).
analyze_trend_with_baseline(current_value, historical_values, total_runs, threshold_std_dev, higher_is_worse) ==
    IF Len(historical_values) < 3 THEN <<>>
    ELSE LET notice == quality_notice(Len(historical_values), total_runs)
             dev == Deviation(current_value, historical_values)
             z == abs_z_score(current_value, historical_values,
                              threshold_std_dev + 10)
             is_bad_trend == (dev > 0 /\ higher_is_worse)
                             \/ (dev < 0 /\ ~higher_is_worse)
         IN IF Spread(historical_values) = 0
            THEN IF dev # 0 THEN <<Trend("High", 95, notice)>> ELSE <<>>
            ELSE IF z >= threshold_std_dev /\ is_bad_trend
            THEN <<Trend(IF z >= threshold_std_dev + 10 THEN "High"
                         ELSE "Moderate",
                         Min(90 + (z - threshold_std_dev), 99), notice)>>
            ELSE <<>>

\* A temporal finding labelled as the static analyzer's, which the Finding
\* model must reject.
TemporalFindingLabelledStatic(resource_id, metric, trend) ==
    [finding_type |-> "static", resource_id |-> resource_id,
     metric |-> metric, strength |-> trend.strength,
     confidence |-> trend.confidence,
     data_quality_notice |-> trend.quality_notice]

TemporalFinding(resource_id, metric, trend) ==
    [finding_type |-> "temporal", resource_id |-> resource_id,
     metric |-> metric, strength |-> trend.strength,
     confidence |-> trend.confidence,
     data_quality_notice |-> trend.quality_notice]

\* A trend analysis that takes a move in either direction for a bad one,
\* which the higher-is-worse metrics must reject.
analyze_metric_either_direction(current, key, history_key, metric, lookback_days) ==
    LET trend == analyze_trend_with_baseline(
                     Get(current, key, 0), Get(current, history_key, <<>>),
                     lookback_days, DefaultThreshold,
                     Deviation(Get(current, key, 0),
                               Get(current, history_key, <<>>)) > 0)
    IN IF trend = <<>> THEN Return(<<>>)
       ELSE IF "resource" \notin DOMAIN current THEN Raise("KeyError")
       ELSE Return(<<TemporalFinding(current["resource"], metric, trend[1])>>)

\* The body shared by _analyze_alb, _analyze_rds and _analyze_elasticache:
\* they differ in the keys read and in the metric's name.
analyze_metric(current, key, history_key, metric, lookback_days) ==
    LET trend == analyze_trend_with_baseline(
                     Get(current, key, 0), Get(current, history_key, <<>>),
                     lookback_days, DefaultThreshold, TRUE)
    IN IF trend = <<>> THEN Return(<<>>)
       ELSE IF "resource" \notin DOMAIN current THEN Raise("KeyError")
       ELSE Return(<<TemporalFinding(current["resource"], metric, trend[1])>>)

_analyze_alb(current, lookback_days) ==
    analyze_metric(current, "http_5xx_errors", "http_5xx_errors_history",
                   "ALB 5xx Errors", lookback_days)

_analyze_rds(current, lookback_days) ==
    analyze_metric(current, "cpu_utilization", "cpu_utilization_history",
                   "RDS CPU Utilization", lookback_days)

_analyze_elasticache(current, lookback_days) ==
    analyze_metric(current, "cpu_utilization", "cpu_utilization_history",
                   "ElastiCache CPU Utilization", lookback_days)

\* the keys of TEMPORAL_ANALYZER_MAP
TEMPORAL_ANALYZER_MAP == {"alb", "rds", "elasticache"}

temporal_analyzer_func(ns, current, lookback_days) ==
    CASE ns = "alb" -> _analyze_alb(current, lookback_days)
      [] ns = "rds" -> _analyze_rds(current, lookback_days)
      [] OTHER -> _analyze_elasticache(current, lookback_days)

\* Python's truth value of an identifier: None (<<>>) and "" are false.
Truthy(res_id) == res_id # <<>> /\ res_id # <<"">>

\* One iteration of analyze's loop: what the item adds.
temporal_item(current_item, lookback_days) ==
    IF "namespace" \notin DOMAIN current_item THEN Raise("KeyError")
    ELSE LET ns == current_item["namespace"]
             res_id == IF Truthy(Get(current_item, "resource_id", <<>>))
                       THEN current_item["resource_id"]
                       ELSE Get(current_item, "resource", <<>>)
         IN IF ~Truthy(res_id) THEN Return(<<>>)
            ELSE IF ns \in TEMPORAL_ANALYZER_MAP
            THEN temporal_analyzer_func(ns, current_item,
                                        lookback_days)
            ELSE Return(<<>>)

RECURSIVE analyze_from(_, _, _, _)
analyze_from(current_results, lookback_days, i, findings) ==
    IF i > Len(current_results) THEN Return(findings)
    ELSE LET r == temporal_item(current_results[i], lookback_days)
         IN IF r.raised # "" THEN Raise(r.raised)
            ELSE analyze_from(current_results, lookback_days,
                              i + 1, findings \o r.findings)

\* An analyze that looks at the first snapshot of the list only, which the
\* independence of the findings from the snapshots' order must reject.
analyze_first_snapshot_only(current_results, lookback_days) ==
    IF current_results = <<>> THEN Return(<<>>)
    ELSE analyze_from(<<current_results[1]>>, lookback_days, 1, <<>>)

\* temporal_analyzer.analyze(current_results, settings)
analyze(current_results, lookback_days) ==
    analyze_from(current_results, lookback_days, 1, <<>>)

-----------------------------------------------------------------------------
(* agent/collectors: what collect() of each category returns.  Every key   *)
(* the collector writes is present, except the collected_at timestamp; the *)
(* metrics no rule reads are held at 0.                                    *)

\* The two readings a collected metric takes in the model: (quiet, alerting).
Reading(alerting, quiet_value, alert_value) ==
    IF alerting THEN alert_value ELSE quiet_value

ALBCollector_collect(res, alerting) ==
    [namespace |-> "alb", resource |-> res,
     http_5xx_errors |-> Reading(alerting, 0, 21),
     http_5xx_errors_history |-> Reading(alerting, <<>>, <<9, 10, 11>>),
     request_count |-> 0,
     avg_latency_ms |-> Reading(alerting, 0, 101),
     avg_latency_ms_history |-> <<>>,
     unhealthy_host_count |-> 0,
     target_groups |-> <<>>]

CloudFormationCollector_collect(res, alerting) ==
    [namespace |-> "cloudformation", resource |-> res,
     stack_status |-> Reading(alerting, "CREATE_COMPLETE",
                              "UPDATE_ROLLBACK_COMPLETE"),
     last_updated_time |-> 0]

ECSCollector_collect(res, alerting) ==
    [namespace |-> "ecs", resource |-> res,
     service_count |-> Reading(alerting, 0, 1),
     cpu_avg |-> Reading(alerting, 0, 90), cpu_max |-> Reading(alerting, 0, 90),
     mem_avg |-> 0, mem_max |-> 0, log_errors |-> <<>>]

ElastiCacheCollector_collect(res, alerting) ==
    [namespace |-> "elasticache", resource |-> res,
     cpu_utilization |-> Reading(alerting, 10, 13),
     cpu_utilization_history |-> Reading(alerting, <<10, 10>>, <<10, 10, 10>>),
     freeable_memory |-> 0,
     cache_hit_rate |-> Reading(alerting, 95, 79),
     evictions |-> Reading(alerting, 0, 1001),
     replication_lag |-> 0]

OpenSearchCollector_collect(res, alerting) ==
    [namespace |-> "opensearch", resource |-> res,
     cpu_utilization |-> 0, free_storage_space |-> 0,
     cluster_status_red |-> Reading(alerting, 0, 1),
     cluster_status_yellow |-> Reading(alerting, 0, 1),
     search_latency_ms |-> 0, indexing_latency_ms |-> 0,
     query_cache_hit_rate |-> 0]

RDSCollector_collect(res, alerting) ==
    [namespace |-> "rds", resource |-> res,
     cpu_utilization |-> Reading(alerting, 10, 76),
     cpu_utilization_history |-> Reading(alerting, <<>>, <<9, 10, 11>>),
     freeable_memory |-> 0, db_connections |-> 0,
     performance_insights |-> [status |-> "disabled"]]

\* str.split(':') of a segment of the model's vocabulary; a segment without
\* a colon is its own single part.
ColonParts(segment) ==
    CASE segment = "arn:aws:wafv2:us-east-2:123456789012:regional" ->
             <<"arn", "aws", "wafv2", "us-east-2", "123456789012", "regional">>
      [] segment = "arn:aws:wafv2:us-east-1:123456789012:global" ->
             <<"arn", "aws", "wafv2", "us-east-1", "123456789012", "global">>
      [] segment = "arn:loadbalancer" -> <<"arn", "loadbalancer">>
      [] segment = "arn:cluster" -> <<"arn", "cluster">>
      [] OTHER -> <<segment>>

\* str.upper() of the scopes an ARN names
Upper(word) ==
    CASE word = "regional" -> "REGIONAL"
      [] word = "global" -> "GLOBAL"
      [] word = "cloudfront" -> "CLOUDFRONT"
      [] OTHER -> word

\* resource_id.split(":"): the ':'-parts of an identifier, each as the
\* sequence of its '/'-segments.  The first ':'-part of a segment continues
\* the part the segment before it ended with.
RECURSIVE split_colon_from(_, _, _)
split_colon_from(res, k, parts) ==
    IF k > Len(res) THEN parts
    ELSE LET c == ColonParts(res[k])
             continued == IF parts = <<>> THEN << <<c[1]>> >>
                          ELSE [parts EXCEPT ![Len(parts)] = Append(@, c[1])]
         IN  split_colon_from(res, k + 1,
                 continued \o [j \in 1..(Len(c) - 1) |-> <<c[j + 1]>>])

split_colon(res) == split_colon_from(res, 1, <<>>)

\* What a collect() that raises leaves in place of a snapshot.
CollectRaised(kind) == [raised |-> kind]

\* The WAF collector parses the ARN: parts[3] is the region, parts[5] holds
\* SCOPE/webacl/NAME/ID; the upper-cased scope and the name, as the resource,
\* go into the snapshot.  An identifier with fewer parts raises IndexError.
WAFCollector_collect(res, alerting) ==
    LET parts == split_colon(res)
    IN  IF Len(parts) < 6 THEN CollectRaised("IndexError")
        ELSE LET name_part == parts[6]
             IN  IF Len(name_part) < 3 THEN CollectRaised("IndexError")
                 ELSE [namespace |-> "waf", resource |-> <<name_part[3]>>,
                       scope |-> Upper(name_part[1]),
                       allowed_requests |-> 0,
                       blocked_requests |-> Reading(alerting, 0, 50)]

\* The readings of the model's resources: the first resource of each
\* category is the alerting one.
IsAlerting(ns, res) == res = ResourceId(ns, 1)

\* The snapshot collect(res) of a category returns, or what it raised.
collect(ns, res) ==
    CASE ns = "alb" -> ALBCollector_collect(res, IsAlerting(ns, res))
      [] ns = "cloudformation" -> CloudFormationCollector_collect(res, IsAlerting(ns, res))
      [] ns = "ecs" -> ECSCollector_collect(res, IsAlerting(ns, res))
      [] ns = "elasticache" -> ElastiCacheCollector_collect(res, IsAlerting(ns, res))
      [] ns = "opensearch" -> OpenSearchCollector_collect(res, IsAlerting(ns, res))
      [] ns = "rds" -> RDSCollector_collect(res, IsAlerting(ns, res))
      [] OTHER -> WAFCollector_collect(res, IsAlerting(ns, res))

-----------------------------------------------------------------------------
(* agent/orchestrator.py: run_collection *)

\* settings.threads or min(32, os.cpu_count() * 5)
pool_size(settings_threads, cpu_count) ==
    IF settings_threads # 0 THEN settings_threads
    ELSE Min(PoolCeiling, cpu_count * CpuFactor)

\* os.cpu_count() in the model's runs
CpuCounts == {1, MaxCpu}

IsFinished(state) == state \in {"FINISHED_RESULT", "FINISHED_EXCEPTION"}

Running == {i \in DOMAIN fstate : fstate[i] = "RUNNING"}
Finished == {i \in DOMAIN fstate : IsFinished(fstate[i])}

\* The pool exists from the with statement's entry to its exit.
PoolAlive == pc \in {"discover", "as_completed", "unwinding"}

\* A pool without a ceiling on its threads, which bounded parallelism must
\* tell from the pool of the code.
worker_always_available(running, pool_max_workers) == TRUE

\* A pool whose threads end with their first task, which the termination of
\* the collection with more tasks than workers must reject.
worker_not_reused(running, pool_max_workers) ==
    running + Cardinality(Finished) < pool_max_workers

\* A worker thread may take the next work item: the pool never runs more
\* than max_workers threads, each busy with one work item at a time.
worker_available(running, pool_max_workers) == running < pool_max_workers

\* orchestrator.py:29 and the entry of the with statement
CreatePool ==
    /\ pc = "start"
    /\ \E cpu \in CpuCounts : max_workers' = pool_size(threads, cpu)
    /\ pc' = "discover"
    /\ coll_i' = 1
    /\ UNCHANGED <<call_vars, results, error_vars, report_vars, pool_vars, settings_vars,
                   analysis_vars>>

\* The loop over get_collectors() reaches a collector: its discover() returns
\* the identifiers, which the inner loop is to submit one by one.  A
\* collector without resources ends its round at once.
Discover ==
    /\ pc = "discover"
    /\ coll_i <= NumCollectors
    /\ discovered = <<>>
    /\ \E ids \in DiscoverOutputs(Collectors[coll_i]) :
          /\ Len(futures) + Len(ids) <= MaxTasks
          /\ discovered' = ids
          /\ coll_i' = IF ids = <<>> THEN coll_i + 1 ELSE coll_i
    /\ discover_calls' = [discover_calls EXCEPT ![coll_i] = @ + 1]
    /\ UNCHANGED <<call_vars, pc, max_workers, results, error_vars, report_vars,
                   futures, fstate, fresult, collect_calls, prefinished,
                   finishedq, unyielded, failed_log, settings_vars,
                   analysis_vars>>

\* One round of the inner loop: pool.submit(coll.collect, res) queues a task
\* for the next identifier, which a worker may take before the next is
\* submitted.  After the last identifier the outer loop moves on.
Submit ==
    /\ pc = "discover"
    /\ discovered # <<>>
    /\ futures' = Append(futures, [namespace |-> Collectors[coll_i],
                                   resource |-> Head(discovered)])
    /\ fstate' = Append(fstate, "PENDING")
    /\ fresult' = Append(fresult, <<>>)
    /\ collect_calls' = Append(collect_calls, 0)
    /\ discovered' = Tail(discovered)
    /\ coll_i' = IF Tail(discovered) = <<>> THEN coll_i + 1 ELSE coll_i
    /\ UNCHANGED <<call_vars, pc, max_workers, results, error_vars, report_vars,
                   discover_calls, prefinished, finishedq, unyielded,
                   failed_log, settings_vars, analysis_vars>>

\* discover() raises: nothing in run_collection catches it, so it leaves the
\* with statement, whose exit waits for the submitted tasks.
DiscoverRaises ==
    /\ pc = "discover"
    /\ coll_i <= NumCollectors
    /\ discovered = <<>>
    /\ discover_calls' = [discover_calls EXCEPT ![coll_i] = @ + 1]
    /\ exc' = "DiscoveryError"
    /\ traceback' = "discover"
    /\ pc' = "unwinding"
    /\ UNCHANGED <<call_vars, max_workers, coll_i, results, report_vars, futures, fstate,
                   fresult, prefinished, finishedq, unyielded, collect_calls,
                   failed_log, discovered, settings_vars, analysis_vars>>

\* The work items queued before the i-th that are not yet marked running.
\* The worker threads take the items from the queue in the order of their
\* submission, one item a thread, so when the i-th is in a thread's hands
\* each of these is in the hands of another, which has yet to mark it.
HeldBefore(i) == {j \in 1..(i - 1) : fstate[j] = "PENDING"}

\* A worker thread that has taken the i-th work item from the queue marks
\* its future running.  The threads that took the earlier items may be
\* slower to do so; each of them and each running task occupies one of the
\* pool's threads.
StartTask(i) ==
    /\ PoolAlive
    /\ fstate[i] = "PENDING"
    /\ worker_available(Cardinality(Running) + Cardinality(HeldBefore(i)),
                        max_workers)
    /\ fstate' = [fstate EXCEPT ![i] = "RUNNING"]
    /\ UNCHANGED <<call_vars, pc, max_workers, coll_i, results, error_vars, report_vars,
                   futures, fresult, prefinished, finishedq, unyielded,
                   collect_calls, discover_calls, discovered, failed_log,
                   settings_vars, analysis_vars>>

\* The worker thread is inside collect(): it marked the future running and
\* has called the function, which has not ended.
InCollect(i) == fstate[i] = "RUNNING" /\ collect_calls[i] > 0

\* The worker thread that marked the i-th future running calls
\* coll.collect(res), some time after the marking.
EnterCollect(i) ==
    /\ fstate[i] = "RUNNING"
    /\ ~InCollect(i)
    /\ collect_calls' = [collect_calls EXCEPT ![i] = @ + 1]
    /\ UNCHANGED <<call_vars, pc, max_workers, coll_i, results, error_vars, report_vars,
                   futures, fstate, fresult, prefinished, finishedq, unyielded,
                   discover_calls, discovered, failed_log, settings_vars,
                   analysis_vars>>

\* as_completed's waiter is told of a future that finishes while it waits.
notify_waiter(i) ==
    IF pc = "as_completed" /\ i \in unyielded
    THEN Append(finishedq, i) ELSE finishedq

\* A task that appends its snapshot to the shared list from its worker thread,
\* which the single writer of the results must reject.
CollectReturnsWriting(i) ==
    /\ InCollect(i)
    /\ fresult' = [fresult EXCEPT
                      ![i] = <<collect(futures[i].namespace, futures[i].resource)>>]
    /\ results' = Append(results,
                         collect(futures[i].namespace, futures[i].resource))
    /\ fstate' = [fstate EXCEPT ![i] = "FINISHED_RESULT"]
    /\ finishedq' = notify_waiter(i)
    /\ UNCHANGED <<call_vars, pc, max_workers, coll_i, error_vars, report_vars,
                   futures, prefinished, unyielded, collect_calls,
                   discover_calls, discovered, failed_log, settings_vars, analysis_vars>>

\* collect() returns a snapshot.
CollectReturns(i) ==
    /\ InCollect(i)
    /\ "raised" \notin DOMAIN collect(futures[i].namespace, futures[i].resource)
    /\ fresult' = [fresult EXCEPT
                      ![i] = <<collect(futures[i].namespace, futures[i].resource)>>]
    /\ fstate' = [fstate EXCEPT ![i] = "FINISHED_RESULT"]
    /\ finishedq' = notify_waiter(i)
    /\ UNCHANGED <<call_vars, pc, max_workers, coll_i, results, error_vars, report_vars,
                   futures, prefinished, unyielded, collect_calls,
                   discover_calls, discovered, failed_log, settings_vars, analysis_vars>>

\* collect() raises: a call of the AWS API fails, or the identifier is one
\* the collector cannot parse.
CollectRaises(i) ==
    /\ InCollect(i)
    /\ fstate' = [fstate EXCEPT ![i] = "FINISHED_EXCEPTION"]
    /\ finishedq' = notify_waiter(i)
    /\ UNCHANGED <<call_vars, pc, max_workers, coll_i, results, error_vars, report_vars,
                   futures, fresult, prefinished, unyielded, collect_calls,
                   discover_calls, discovered, failed_log, settings_vars, analysis_vars>>

\* The loop over the collectors ends and as_completed(futures) is entered:
\* the futures already finished are set aside, to be yielded first.
EnterAsCompleted ==
    /\ pc = "discover"
    /\ coll_i > NumCollectors
    /\ pc' = "as_completed"
    /\ unyielded' = DOMAIN futures
    /\ prefinished' = Finished
    /\ finishedq' = <<>>
    /\ UNCHANGED <<call_vars, max_workers, coll_i, results, error_vars, report_vars, futures,
                   fstate, fresult, collect_calls, discover_calls, discovered, failed_log,
                   settings_vars, analysis_vars>>

\* The futures as_completed may yield next: any of those finished before it
\* was entered (a set's order), then the others in their order of finishing.
NextYield ==
    IF prefinished # {} THEN prefinished
    ELSE IF finishedq # <<>> THEN {Head(finishedq)} ELSE {}

\* f.result(): the snapshot of a future, or the exception collect() raised.
future_result(f) ==
    IF fstate[f] = "FINISHED_RESULT"
    THEN [raised |-> "", value |-> fresult[f]]
    ELSE [raised |-> "CollectionError", value |-> <<>>]

\* A loop body without its except clause, which lets a collect() failure
\* leave the loop.
except_nothing(kind) == FALSE

\* except Exception: catches what collect() raises.
except_Exception(kind) == kind \in {"CollectionError"}

\* One round of the loop over as_completed(futures): f.result() is appended
\* to results, or raises and is reported.
HandleCompleted ==
    /\ pc = "as_completed"
    /\ \E f \in NextYield :
          /\ LET r == future_result(f)
             IN IF r.raised = ""
                THEN /\ results' = Append(results, r.value[1])
                     /\ UNCHANGED <<pc, failed_log, error_vars>>
                ELSE IF except_Exception(r.raised)
                THEN /\ failed_log' = failed_log \cup {f}
                     /\ UNCHANGED <<pc, results, error_vars>>
                ELSE /\ exc' = r.raised
                     /\ traceback' = "collect"
                     /\ pc' = "unwinding"
                     /\ UNCHANGED <<results, failed_log>>
          /\ unyielded' = unyielded \ {f}
          /\ prefinished' = prefinished \ {f}
          /\ finishedq' = IF prefinished # {} THEN finishedq
                          ELSE Tail(finishedq)
    /\ UNCHANGED <<call_vars, max_workers, coll_i, report_vars, futures, fstate,
                   fresult, collect_calls, discover_calls, discovered, settings_vars,
                   analysis_vars>>

\* A loop that ends at the first failure it meets, which fault isolation
\* must reject.
stop_at_first_failure == unyielded = {} \/ failed_log # {}

\* A loop that ends when no finished future is at hand instead of waiting,
\* which the wait before the analysis must reject.
stop_when_none_ready == NextYield = {}

\* as_completed is exhausted once every future was yielded.
collection_complete == unyielded = {}

\* The loop ends and the with statement is left.
ExitPool ==
    /\ pc = "as_completed"
    /\ collection_complete
    /\ pc' = "analyze"
    /\ UNCHANGED <<call_vars, max_workers, coll_i, results, error_vars, report_vars, pool_vars,
                   settings_vars, analysis_vars>>

\* The with statement's exit on an exception: shutdown(wait=True) returns
\* when every submitted task has run, and the exception goes on.
Unwind ==
    /\ pc = "unwinding"
    /\ Finished = DOMAIN futures
    /\ pc' = "raised"
    /\ UNCHANGED <<call_vars, max_workers, coll_i, results, error_vars, report_vars, pool_vars,
                   settings_vars, analysis_vars>>

-----------------------------------------------------------------------------
(* agent/analysis/analyzer.py: Analyzer.run_analysis, one action a stage *)

\* What client.chat can do: answer, or raise one of the errors caught.
SummarizerOutcomes ==
    {"content", "ResponseError404", "ResponseError", "Exception"}

summary_of(outcome) ==
    CASE outcome = "content" -> "response content"
      [] outcome = "ResponseError404" -> "Error: The model was not found"
      [] OTHER -> "Error during analysis"

\* analyzer.py:26: without a provider nothing is analysed.
AnalysisDisabled ==
    /\ pc = "analyze"
    /\ UNCHANGED analyzer_calls
    /\ ~llm_provider
    /\ summary' = "(AI analysis disabled)"
    /\ pc' = "report"
    /\ UNCHANGED <<call_vars, max_workers, coll_i, results, error_vars, report_vars, pool_vars,
                   settings_vars, static_findings, temporal_findings,
                   all_findings, llm_calls>>

\* A static analysis that takes the histories out of the snapshots it has
\* read, which the immutability of the snapshots must reject.
PreAnalysisConsuming ==
    /\ pc = "analyze"
    /\ analyzer_calls' = [analyzer_calls EXCEPT ![1] = @ + 1]
    /\ llm_provider
    /\ LET r == run_pre_analysis(results)
       IN /\ static_findings' = r.findings
          /\ exc' = r.raised
          /\ traceback' = IF r.raised # "" THEN "run_pre_analysis" ELSE ""
          /\ pc' = IF r.raised # "" THEN "raised" ELSE "temporal"
    /\ results' = [k \in DOMAIN results |->
                      [key \in DOMAIN results[k]
                               \ {"http_5xx_errors_history",
                                  "cpu_utilization_history"}
                         |-> results[k][key]]]
    /\ UNCHANGED <<call_vars, max_workers, coll_i, report_vars, pool_vars,
                   settings_vars, temporal_findings, all_findings, llm_calls,
                   summary>>

\* analyzer.py:30: an exception of run_pre_analysis leaves run_analysis.
PreAnalysis ==
    /\ pc = "analyze"
    /\ analyzer_calls' = [analyzer_calls EXCEPT ![1] = @ + 1]
    /\ llm_provider
    /\ LET r == run_pre_analysis(results)
       IN /\ static_findings' = r.findings
          /\ exc' = r.raised
          /\ traceback' = IF r.raised # "" THEN "run_pre_analysis" ELSE ""
          /\ pc' = IF r.raised # "" THEN "raised" ELSE "temporal"
    /\ UNCHANGED <<call_vars, max_workers, coll_i, results, report_vars, pool_vars,
                   settings_vars, temporal_findings, all_findings, llm_calls,
                   summary>>

\* analyzer.py:33: an exception of temporal_analyzer.analyze leaves
\* run_analysis.
TemporalAnalysis ==
    /\ pc = "temporal"
    /\ analyzer_calls' = [analyzer_calls EXCEPT ![2] = @ + 1]
    /\ LET r == analyze(results, temporal_lookback_days)
       IN /\ temporal_findings' = r.findings
          /\ exc' = r.raised
          /\ traceback' = IF r.raised # "" THEN "analyze" ELSE ""
          /\ pc' = IF r.raised # "" THEN "raised" ELSE "aggregate"
    /\ UNCHANGED <<call_vars, max_workers, coll_i, results, report_vars, pool_vars,
                   settings_vars, static_findings, all_findings, llm_calls,
                   summary>>

\* An aggregation that puts the temporal findings first, which pure
\* concatenation must reject.
AggregateTemporalFirst ==
    /\ pc = "aggregate"
    /\ UNCHANGED analyzer_calls
    /\ all_findings' = temporal_findings \o static_findings
    /\ IF all_findings' = <<>>
       THEN /\ summary' = "No significant issues"
            /\ pc' = "report"
       ELSE /\ summary' = summary
            /\ pc' = "summarize"
    /\ UNCHANGED <<call_vars, max_workers, coll_i, results, error_vars,
                   report_vars, pool_vars, settings_vars, static_findings,
                   temporal_findings, llm_calls>>

\* An aggregation that hands every list to the summarizer, which the rule
\* for an empty list must reject.
AggregateAlwaysSummarizing ==
    /\ pc = "aggregate"
    /\ UNCHANGED analyzer_calls
    /\ all_findings' = static_findings \o temporal_findings
    /\ summary' = summary
    /\ pc' = "summarize"
    /\ UNCHANGED <<call_vars, max_workers, coll_i, results, error_vars,
                   report_vars, pool_vars, settings_vars, static_findings,
                   temporal_findings, llm_calls>>

\* analyzer.py:38-42
Aggregate ==
    /\ pc = "aggregate"
    /\ UNCHANGED analyzer_calls
    /\ all_findings' = static_findings \o temporal_findings
    /\ IF all_findings' = <<>>
       THEN /\ summary' = "No significant issues"
            /\ pc' = "report"
       ELSE /\ summary' = summary
            /\ pc' = "summarize"
    /\ UNCHANGED <<call_vars, max_workers, coll_i, results, error_vars, report_vars, pool_vars,
                   settings_vars, static_findings, temporal_findings,
                   llm_calls>>

\* A call of the summarizer that catches the client's ResponseError only,
\* which the conversion of every failure into a summary must reject.
SummarizeCatchingResponseError ==
    /\ pc = "summarize"
    /\ UNCHANGED analyzer_calls
    /\ llm_calls' = llm_calls + 1
    /\ \E outcome \in SummarizerOutcomes :
          IF outcome = "Exception"
          THEN /\ exc' = "Exception"
               /\ traceback' = "chat"
               /\ pc' = "raised"
               /\ summary' = summary
          ELSE /\ summary' = summary_of(outcome)
               /\ pc' = "report"
               /\ UNCHANGED error_vars
    /\ UNCHANGED <<call_vars, max_workers, coll_i, results, report_vars,
                   pool_vars, settings_vars, static_findings,
                   temporal_findings, all_findings>>

\* analyzer.py:44-57: the call of the summarizer, whose errors are caught.
Summarize ==
    /\ pc = "summarize"
    /\ UNCHANGED analyzer_calls
    /\ llm_calls' = llm_calls + 1
    /\ \E outcome \in SummarizerOutcomes : summary' = summary_of(outcome)
    /\ pc' = "report"
    /\ UNCHANGED <<call_vars, max_workers, coll_i, results, error_vars, report_vars, pool_vars,
                   settings_vars, static_findings, temporal_findings,
                   all_findings>>

\* markdown_writer.py:26, the order of the report's sections
namespace_order ==
    <<"ecs", "alb", "rds", "opensearch", "elasticache", "waf",
      "cloudformation">>

\* The keys the formatter of a section indexes of each of its items, besides
\* the resource.
FormatterKeys(ns) ==
    CASE ns = "ecs" ->
             {"service_count", "cpu_avg", "cpu_max", "mem_avg", "mem_max"}
      [] ns = "alb" ->
             {"http_5xx_errors", "request_count", "avg_latency_ms",
              "unhealthy_host_count", "target_groups"}
      [] ns = "rds" -> {"cpu_utilization", "freeable_memory", "db_connections"}
      [] ns = "opensearch" ->
             {"cpu_utilization", "free_storage_space", "cluster_status_red",
              "cluster_status_yellow"}
      [] ns = "elasticache" ->
             {"cpu_utilization", "freeable_memory", "cache_hit_rate",
              "evictions", "replication_lag"}
      [] ns = "waf" -> {"scope", "allowed_requests", "blocked_requests"}
      [] OTHER -> {"stack_status", "last_updated_time"}

\* What formatting one item raises ("" when nothing): _format_alb takes the
\* last but one '/'-segment of the resource first, then each formatter
\* indexes its keys.
format_item(ns, item) ==
    IF ns = "alb" /\ Len(item["resource"]) < 2 THEN "IndexError"
    ELSE IF ~(FormatterKeys(ns) \subseteq DOMAIN item) THEN "KeyError"
    ELSE ""

\* The place of a resource in the order of Python's strings, for the
\* load balancers of the model's vocabulary.
ResourceRank(resource) ==
    CASE resource = <<"arn:loadbalancer", "app", "lb1", "id">> -> 1
      [] resource = <<"arn:loadbalancer", "app", "lb1", "id2">> -> 2
      [] resource = <<"arn:loadbalancer", "app", "lb2", "id">> -> 3
      [] resource = <<"lb-plain">> -> 4
      [] OTHER -> 0

\* _format_<namespace>(items): sorted(items, key=resource) raises KeyError
\* on an item without a resource; then the items are formatted in that
\* order (a stable sort), and the first that fails ends the formatter.
format_section(ns, items) ==
    IF \E i \in DOMAIN items : "resource" \notin DOMAIN items[i]
    THEN "KeyError"
    ELSE LET failing == {i \in DOMAIN items : format_item(ns, items[i]) # ""}
             before(i, j) ==
                 \/ ResourceRank(items[i]["resource"])
                      < ResourceRank(items[j]["resource"])
                 \/ /\ ResourceRank(items[i]["resource"])
                         = ResourceRank(items[j]["resource"])
                    /\ i <= j
         IN  IF failing = {} THEN ""
             ELSE format_item(ns, items[CHOOSE i \in failing :
                                          \A j \in failing : before(i, j)])

\* The sections from the k-th on: the first formatter that raises.
RECURSIVE format_sections_from(_, _)
format_sections_from(items, k) ==
    IF k > Len(namespace_order) THEN ""
    ELSE LET section == SelectSeq(items,
                 LAMBDA item : item["namespace"] = namespace_order[k])
             raised == IF section = <<>> THEN ""
                       ELSE format_section(namespace_order[k], section)
         IN  IF raised # "" THEN raised
             ELSE format_sections_from(items, k + 1)

\* write_markdown(run_payload, reports_dir): what it raises ("" when it
\* writes latest.md).  The grouping indexes the namespace of every item;
\* the sections of namespace_order are formatted; items of another
\* namespace are left out of the report.
write_markdown(payload) ==
    IF \E i \in DOMAIN payload.results :
           "namespace" \notin DOMAIN payload.results[i]
    THEN "KeyError"
    ELSE format_sections_from(payload.results, 1)

\* orchestrator.py:52-63: the collect command builds the payload and writes
\* the JSON report, then the markdown report; orchestrator.py:88-92: the
\* reanalyze command puts the summary into the loaded payload and writes the
\* markdown report only.  What write_markdown raises leaves the command.
WriteReports ==
    /\ pc = "report"
    /\ LET payload == [results |-> results, analysis_summary |-> summary]
           raised == write_markdown(payload)
       IN  /\ run_payload' = <<payload>>
           /\ reports' = (IF command = "collect" THEN {"json"} ELSE {})
                          \cup (IF raised = "" THEN {"markdown"} ELSE {})
           /\ IF raised = ""
              THEN /\ pc' = "done"
                   /\ UNCHANGED error_vars
              ELSE /\ pc' = "raised"
                   /\ exc' = raised
                   /\ traceback' = "write_markdown"
    /\ UNCHANGED <<call_vars, max_workers, coll_i, results, pool_vars,
                   settings_vars, analysis_vars>>

RunAnalysis ==
    \/ AnalysisDisabled
    \/ PreAnalysis
    \/ TemporalAnalysis
    \/ Aggregate
    \/ Summarize
    \/ WriteReports

-----------------------------------------------------------------------------
(* The collect command: run_collection from its first line *)

\* settings.temporal_lookback_days of the config.py defaults
DefaultLookbackDays == 14

Init ==
    /\ pc = "start"
    /\ command = "collect"
    /\ threads \in 0..MaxThreads
    /\ llm_provider \in BOOLEAN
    /\ temporal_lookback_days = DefaultLookbackDays
    /\ max_workers = 0
    /\ coll_i = 0
    /\ discovered = <<>>
    /\ reports = {}
    /\ futures = <<>>
    /\ fstate = <<>>
    /\ fresult = <<>>
    /\ prefinished = {}
    /\ finishedq = <<>>
    /\ unyielded = {}
    /\ results = <<>>
    /\ exc = ""
    /\ traceback = ""
    /\ collect_calls = <<>>
    /\ discover_calls = [c \in 1..NumCollectors |-> 0]
    /\ failed_log = {}
    /\ summary = ""
    /\ run_payload = <<>>
    /\ static_findings = <<>>
    /\ temporal_findings = <<>>
    /\ all_findings = <<>>
    /\ analyzer_calls = <<0, 0>>
    /\ llm_calls = 0
    /\ trend_call = <<>>
    /\ returned = <<>>
    /\ call_findings = <<>>
    /\ call_i = 0

Next ==
    \/ CreatePool
    \/ Discover
    \/ Submit
    \/ DiscoverRaises
    \/ \E i \in DOMAIN futures : StartTask(i)
    \/ \E i \in DOMAIN futures : EnterCollect(i)
    \/ \E i \in DOMAIN futures : CollectReturns(i)
    \/ \E i \in DOMAIN futures : CollectRaises(i)
    \/ EnterAsCompleted
    \/ HandleCompleted
    \/ ExitPool
    \/ Unwind
    \/ RunAnalysis

Spec == Init /\ [][Next]_vars

\* The collection phase of the collect command under fair scheduling: the
\* main thread goes on (discover() returns or raises, the loops and the
\* with statement take their next step), a worker thread starts a task it
\* took from the queue, and collect() returns or raises.
MainThreadStep ==
    \/ CreatePool
    \/ Discover
    \/ Submit
    \/ DiscoverRaises
    \/ EnterAsCompleted
    \/ HandleCompleted
    \/ ExitPool
    \/ Unwind

WorkerTakesTask ==
    \/ \E i \in DOMAIN futures : StartTask(i)
    \/ \E i \in DOMAIN futures : EnterCollect(i)

CollectTerminates ==
    \E i \in DOMAIN futures : CollectReturns(i) \/ CollectRaises(i)

NextCollection ==
    \/ MainThreadStep
    \/ WorkerTakesTask
    \/ CollectTerminates

\* The scheduler does not halt the process: while some thread can take a
\* step, one of them eventually does.  Every step of the collection phase
\* is one of a bounded number, so its end needs no more than this.
Fairness == WF_vars(NextCollection)

\* The collection phase reads settings.threads only: the runs are taken with
\* the analysis switched off, which no step of the phase looks at.
InitCollection == Init /\ ~llm_provider

SpecFair == InitCollection /\ [][NextCollection]_vars /\ Fairness

-----------------------------------------------------------------------------
(* The reanalyze command: run_analysis_on_report.  The snapshots come from *)
(* a JSON report file, so a key may be missing from any of them.           *)

\* The dicts with key absent, or present with one of the values.
Optional(key, values) == {<<>>} \cup {key :> v : v \in values}

Join(A, B) == {a @@ b : a \in A, b \in B}

ReportResources(ns) == Optional("resource", {ResourceId(ns, 1), ResourceId(ns, 2)})

ReportALB ==
    Join(Join(Join(Join({"namespace" :> "alb"},
        Optional("resource", {ResourceId("alb", 1), <<"lb-plain">>,
                              <<"arn:loadbalancer", "app", "lb1", "id2">>})),
        Optional("http_5xx_errors", {20, 21})),
        Optional("avg_latency_ms", {100, 101})),
        Optional("http_5xx_errors_history", {<<20, 20>>, <<20, 20, 20>>}))

ReportRDS ==
    Join(Join(Join({"namespace" :> "rds"}, ReportResources("rds")),
        Optional("cpu_utilization", {16, 20, 21, 75, 76})),
        Optional("cpu_utilization_history", {<<18, 19, 20>>}))

ReportElastiCache ==
    Join(Join(Join({"namespace" :> "elasticache"},
        ReportResources("elasticache")),
        Optional("cache_hit_rate", {79, 80})),
        Optional("evictions", {1000, 1001}))

\* The service dicts of an ECS snapshot: at strength, short of tasks, short
\* and unnamed, without a count of its running tasks, and empty.
ReportServices ==
    { [name |-> "web", running_tasks |-> 1, desired_tasks |-> 1],
      [name |-> "api", running_tasks |-> 1, desired_tasks |-> 2],
      [running_tasks |-> 1, desired_tasks |-> 2],
      [name |-> "job", desired_tasks |-> 1],
      <<>> }

\* The service lists of at most MaxServices services, of which at most one
\* is neither of the first two.
ReportServiceLists ==
    LET usual == { [name |-> "web", running_tasks |-> 1, desired_tasks |-> 1],
                   [name |-> "api", running_tasks |-> 1, desired_tasks |-> 2] }
    IN UNION { [1..n -> usual]
               \cup { [l EXCEPT ![p] = s] :
                        <<l, p, s>> \in [1..n -> usual] \X (1..n)
                                         \X ReportServices }
               : n \in 0..MaxServices }

ReportECS ==
    Join(Join({"namespace" :> "ecs"},
        Optional("resource", {ResourceId("ecs", 1)})),
        Optional("services", ReportServiceLists))

ReportOpenSearch ==
    Join(Join(Join({"namespace" :> "opensearch"},
        Optional("resource", {ResourceId("opensearch", 1)})),
        Optional("cluster_status_red", {0, 1})),
        Optional("cluster_status_yellow", {0, 1}))

ReportCloudFormation ==
    Join(Join({"namespace" :> "cloudformation"},
        Optional("resource", {ResourceId("cloudformation", 1)})),
        Optional("status", {"CREATE_COMPLETE"} \cup failed_states))

\* Snapshots of a category without rules, of an unknown category, and
\* without a category.
ReportOther ==
    Join(Join(Optional("namespace", {"waf", "lambda"}),
        Optional("resource", {<<"acl1">>})),
        Optional("resource_id", {<<"acl1">>}))

\* Snapshots that name their resource under resource_id only.
ReportResourceIdOnly ==
    Join(Join({"namespace" :> "alb"} \cup {"namespace" :> "rds"},
        {"resource_id" :> <<"r1">>}),
        Optional("cpu_utilization_history", {<<0, 0, 0>>, <<1, 1, 1>>}))

ReportSnapshots ==
    ReportALB \cup ReportRDS \cup ReportElastiCache \cup ReportECS
    \cup ReportOpenSearch \cup ReportCloudFormation \cup ReportOther
    \cup ReportResourceIdOnly

\* The snapshots the lists of a report are filled up with: one that yields
\* a static and a temporal finding and one of a category without rules.
Companions ==
    { ALBCollector_collect(ResourceId("alb", 1), TRUE),
      WAFCollector_collect(ResourceId("waf", 1), FALSE) }

\* The lists of at most MaxSnaps snapshots with at most one snapshot that
\* is not a companion.
ReportLists ==
    UNION { [1..n -> Companions]
            \cup { [l EXCEPT ![p] = s] :
                     <<l, p, s>> \in [1..n -> Companions] \X (1..n)
                                      \X ReportSnapshots }
            : n \in 0..MaxSnaps }

\* settings.temporal_lookback_days in the model's re-analyses
LookbackChoices == {3, DefaultLookbackDays}

InitReanalyze ==
    /\ pc = "analyze"
    /\ command = "reanalyze"
    /\ results \in ReportLists
    /\ llm_provider \in BOOLEAN
    /\ temporal_lookback_days \in LookbackChoices
    /\ threads = 0
    /\ max_workers = 0
    /\ coll_i = 0
    /\ discovered = <<>>
    /\ reports = {}
    /\ futures = <<>>
    /\ fstate = <<>>
    /\ fresult = <<>>
    /\ prefinished = {}
    /\ finishedq = <<>>
    /\ unyielded = {}
    /\ exc = ""
    /\ traceback = ""
    /\ collect_calls = <<>>
    /\ discover_calls = [c \in 1..NumCollectors |-> 0]
    /\ failed_log = {}
    /\ summary = ""
    /\ run_payload = <<>>
    /\ static_findings = <<>>
    /\ temporal_findings = <<>>
    /\ all_findings = <<>>
    /\ analyzer_calls = <<0, 0>>
    /\ llm_calls = 0
    /\ trend_call = <<>>
    /\ returned = <<>>
    /\ call_findings = <<>>
    /\ call_i = 0

NextReanalyze == RunAnalysis

SpecReanalyze == InitReanalyze /\ [][NextReanalyze]_vars

-----------------------------------------------------------------------------
(* Direct calls of the temporal analyzer's functions, as a caller or a test *)
(* makes them: analyze_trend_with_baseline on one set of arguments, and    *)
(* analyze repeatedly on one list of snapshots.                            *)

\* The values of the samples of a history, and of the current value.
SampleValues == {9, 10, 11}
CurrentValues == 6..15

\* historical_values: None (<<>>) or a list (<<list>>) of at most MaxHist
\* samples, and the list [10, 10, 11, 9, 10].
HistoryArgs ==
    {<<>>}
    \cup { <<hs>> : hs \in UNION { [1..n -> SampleValues] : n \in 0..MaxHist } }
    \cup { << <<10, 10, 11, 9, 10>> >> }

\* threshold_std_dev in tenths: 1.0, the default 2.0, and 3.0
ThresholdArgs == {DefaultThreshold - 10, DefaultThreshold, DefaultThreshold + 10}

TotalRunsArgs == {0, 3, DefaultLookbackDays}

TrendCalls ==
    [current_value : CurrentValues, historical_values : HistoryArgs,
     total_runs : TotalRunsArgs, threshold_std_dev : ThresholdArgs,
     higher_is_worse : BOOLEAN]

\* The lists analyze is called on: a single snapshot of a report, and the
\* lists of companions.
CallLists ==
    { <<s>> : s \in ReportSnapshots }
    \cup UNION { [1..n -> Companions] : n \in 0..MaxSnaps }

\* temporal_analyzer.py:33: "not historical_values" is true of None.
trend_of_call(call) ==
    IF call.historical_values = <<>> THEN <<>>
    ELSE analyze_trend_with_baseline(call.current_value,
             call.historical_values[1], call.total_runs,
             call.threshold_std_dev, call.higher_is_worse)

\* analyze_trend_with_baseline(...) is called and returns.
CallTrend ==
    /\ pc = "call_trend"
    /\ returned' = <<trend_of_call(trend_call)>>
    /\ pc' = "returned"
    /\ UNCHANGED <<trend_call, call_findings, call_i, max_workers, coll_i,
                   results, report_vars, pool_vars, error_vars, settings_vars,
                   analysis_vars>>

\* An entry of analyze that goes on with the list of the call before (a
\* module-level list, a mutable default argument), which idempotence must
\* reject.
CallAnalyzeKeepingFindings ==
    /\ pc = "call_analyze"
    /\ call_i = 0
    /\ Len(returned) < MaxCalls
    /\ call_i' = 1
    /\ UNCHANGED <<pc, trend_call, returned, call_findings, max_workers,
                   coll_i, results, report_vars, pool_vars, error_vars,
                   settings_vars, analysis_vars>>

\* analyze(current_results, settings) is called once more on the same list:
\* temporal_analyzer.py:83 starts the call from a new, empty findings list.
CallAnalyze ==
    /\ pc = "call_analyze"
    /\ call_i = 0
    /\ Len(returned) < MaxCalls
    /\ call_findings' = <<>>
    /\ call_i' = 1
    /\ UNCHANGED <<pc, trend_call, returned, max_workers, coll_i, results,
                   report_vars, pool_vars, error_vars, settings_vars,
                   analysis_vars>>

\* One round of the loop of that call (temporal_analyzer.py:87-96): the
\* findings of the snapshot are added to the call's list, or the exception
\* the round raises ends the call.
AnalyzeItem ==
    /\ pc = "call_analyze"
    /\ call_i \in 1..Len(results)
    /\ LET r == temporal_item(results[call_i], temporal_lookback_days)
       IN  IF r.raised # ""
           THEN /\ returned' = Append(returned, Raise(r.raised))
                /\ call_i' = 0
                /\ UNCHANGED call_findings
           ELSE /\ call_findings' = call_findings \o r.findings
                /\ call_i' = call_i + 1
                /\ UNCHANGED returned
    /\ UNCHANGED <<pc, trend_call, max_workers, coll_i, results, report_vars,
                   pool_vars, error_vars, settings_vars, analysis_vars>>

\* The loop is over and the call returns its list (temporal_analyzer.py:98).
AnalyzeReturns ==
    /\ pc = "call_analyze"
    /\ call_i = Len(results) + 1
    /\ returned' = Append(returned, Return(call_findings))
    /\ call_i' = 0
    /\ UNCHANGED <<pc, trend_call, call_findings, max_workers, coll_i, results,
                   report_vars, pool_vars, error_vars, settings_vars,
                   analysis_vars>>

InitCalls ==
    /\ command = ""
    /\ \/ /\ pc = "call_trend"
          /\ trend_call \in TrendCalls
          /\ results = <<>>
          /\ temporal_lookback_days = DefaultLookbackDays
       \/ /\ pc = "call_analyze"
          /\ trend_call = <<>>
          /\ results \in CallLists
          /\ temporal_lookback_days \in LookbackChoices
    /\ returned = <<>>
    /\ call_findings = <<>>
    /\ call_i = 0
    /\ llm_provider = TRUE
    /\ threads = 0
    /\ max_workers = 0
    /\ coll_i = 0
    /\ discovered = <<>>
    /\ reports = {}
    /\ futures = <<>>
    /\ fstate = <<>>
    /\ fresult = <<>>
    /\ prefinished = {}
    /\ finishedq = <<>>
    /\ unyielded = {}
    /\ exc = ""
    /\ traceback = ""
    /\ collect_calls = <<>>
    /\ discover_calls = [c \in 1..NumCollectors |-> 0]
    /\ failed_log = {}
    /\ summary = ""
    /\ run_payload = <<>>
    /\ static_findings = <<>>
    /\ temporal_findings = <<>>
    /\ all_findings = <<>>
    /\ analyzer_calls = <<0, 0>>
    /\ llm_calls = 0

NextCalls == CallTrend \/ CallAnalyze \/ AnalyzeItem \/ AnalyzeReturns

SpecCalls == InitCalls /\ [][NextCalls]_vars

-----------------------------------------------------------------------------
(* Properties of the collection phase, checked under Spec *)

Succeeded == {i \in DOMAIN futures : fstate[i] = "FINISHED_RESULT"}
Failed == {i \in DOMAIN futures : fstate[i] = "FINISHED_EXCEPTION"}

\* run_analysis has returned and the writing of the markdown report raised.
ReportingRaised == pc = "raised" /\ traceback = "write_markdown"

\* The loop over as_completed has ended and the with statement was left
\* without an exception.
AfterCollection ==
    \/ pc \in {"analyze", "temporal", "aggregate", "summarize", "report",
               "done"}
    \/ pc = "raised" /\ traceback \in {"run_pre_analysis", "analyze"}
    \/ ReportingRaised

Count(seq, x) == Cardinality({k \in DOMAIN seq : seq[k] = x})

\* C1: a collect() that raises is recorded as failed and adds nothing to the
\* results, and it neither cancels nor prevents any other submitted task:
\* once the collection phase has ended every task has run, the failed ones
\* are exactly the reported ones, and the results hold exactly the snapshots
\* of the tasks that succeeded.
C1_FaultIsolation ==
    /\ \A k \in DOMAIN results :
          \E i \in Succeeded : results[k] = fresult[i][1]
    /\ failed_log \subseteq Failed
    /\ AfterCollection =>
          /\ Succeeded \cup Failed = DOMAIN futures
          /\ \A i \in DOMAIN futures : collect_calls[i] = 1
          /\ failed_log = Failed
          /\ Len(results) = Cardinality(Succeeded)
          /\ \A i \in Succeeded :
                Count(results, fresult[i][1])
                    = Cardinality({j \in Succeeded : fresult[j] = fresult[i]})

\* One task failed, another succeeded, and the collection phase has ended.
C1_Witness ==
    /\ pc = "analyze"
    /\ Failed # {}
    /\ Succeeded # {}
    /\ failed_log = Failed
    /\ Len(results) = Cardinality(Succeeded)

\* C2: when every collection task fails the collection phase still ends,
\* with an empty result list, and no failure of collect() ever leaves
\* run_collection as an exception.
C2_AllFailedGivesEmptyResults ==
    /\ traceback # "collect"
    /\ (pc \in {"unwinding", "raised"} /\ ~AfterCollection)
          => traceback = "discover"
    /\ (AfterCollection /\ Failed = DOMAIN futures) => results = <<>>
    /\ (pc = "as_completed" /\ Failed = DOMAIN futures)
          => results = <<>> /\ exc = ""

\* Two or more tasks were submitted, all failed, and the analysis was reached
\* with no result and no exception.
C2_Witness ==
    /\ pc = "analyze"
    /\ Len(futures) >= 2
    /\ Failed = DOMAIN futures
    /\ results = <<>>
    /\ exc = ""

\* C3: an exception of one category's discover() never leaves
\* run_collection (the other categories would still be discovered and
\* collected).
C3_DiscoveryFailureIsolated == ~(pc = "raised" /\ traceback = "discover")

\* C4: the analysis starts only when every submitted task has reached a
\* terminal state: while a task is queued or running no stage of the
\* analysis has run and no report was produced.
C4_AnalysisAfterAllTasks ==
    /\ pc \in {"analyze", "temporal", "aggregate", "summarize", "report",
               "done", "raised"}
          => \A i \in DOMAIN futures : IsFinished(fstate[i])
    /\ (\E i \in DOMAIN futures : ~IsFinished(fstate[i]))
          => /\ static_findings = <<>>
             /\ temporal_findings = <<>>
             /\ summary = ""
             /\ run_payload = <<>>

\* The main thread is held at the wait point: nothing is ready to be
\* yielded while one task runs and another is queued.
C4_Witness ==
    /\ pc = "as_completed"
    /\ NextYield = {}
    /\ Running # {}
    /\ \E i \in DOMAIN futures : fstate[i] = "PENDING"
    /\ summary = ""

\* C5: never more collection tasks run at once than the pool size, which is
\* settings.threads when that is not zero and min(32, 5 * cpu_count)
\* otherwise, so at most 32.
C5_BoundedParallelism ==
    /\ Cardinality(Running) <= max_workers
    /\ pc # "start" =>
          /\ threads # 0 => max_workers = threads
          /\ threads = 0 =>
                /\ max_workers <= PoolCeiling
                /\ \E cpu \in CpuCounts :
                      max_workers = Min(PoolCeiling, CpuFactor * cpu)

\* The pool is saturated: as many tasks run as the pool has workers and a
\* further task waits in the queue.
C5_Witness ==
    /\ PoolAlive
    /\ max_workers > 0
    /\ Cardinality(Running) = max_workers
    /\ \E i \in DOMAIN futures : fstate[i] = "PENDING"

\* A pass of run_collection has ended: it returned or an exception left it.
PassEnded == pc \in {"done", "raised"}

\* C6: no retries: no call is ever made twice (collect() at most once for a
\* submitted identifier, none while its task is queued, one when the task
\* has finished, failed or not; discover() at most once for a category), and
\* when the pass has ended collect() was called exactly once for each
\* identifier and discover() exactly once for each category.
C6_ExactlyOnce ==
    /\ \A i \in DOMAIN futures :
          /\ collect_calls[i] <= 1
          /\ fstate[i] = "PENDING" => collect_calls[i] = 0
          /\ IsFinished(fstate[i]) => collect_calls[i] = 1
    /\ \A c \in 1..NumCollectors : discover_calls[c] <= 1
    /\ PassEnded =>
          /\ \A i \in DOMAIN futures : collect_calls[i] = 1
          /\ \A c \in 1..NumCollectors : discover_calls[c] = 1

-----------------------------------------------------------------------------
(* Properties of the analysis, checked under SpecReanalyze *)

\* run_pre_analysis has returned / has raised in this run.
StaticReturned ==
    /\ llm_provider
    /\ \/ pc \in {"temporal", "aggregate", "summarize", "report", "done"}
       \/ traceback = "analyze"
       \/ ReportingRaised
StaticRaised == traceback = "run_pre_analysis"

\* temporal_analyzer.analyze has returned / has raised in this run.
TemporalReturned ==
    /\ llm_provider
    /\ pc \in {"aggregate", "summarize", "report", "done"} \/ ReportingRaised
TemporalRaised == traceback = "analyze"

\* The value of a metric, an absent one counting as d.
Value(item, key, d) == IF key \in DOMAIN item THEN item[key] ELSE d

Underprovisioned(service) ==
    Value(service, "running_tasks", 0) < Value(service, "desired_tasks", 0)

\* The rules of a snapshot's category in their priority order, each with its
\* condition on the snapshot, its issue, its strength and its confidence.
RuleTable(item) ==
    LET ns == Value(item, "namespace", "None")
        resource == Value(item, "resource", <<>>)
    IN CASE ns = "alb" ->
              << <<Value(item, "http_5xx_errors", 0) > 20,
                   "High 5xx Error Count", "High", 90>>,
                 <<Value(item, "avg_latency_ms", 0) > 100,
                   "High Target Response Time", "Moderate", 70>> >>
         [] ns = "rds" ->
              << <<~Contains(resource, "read")
                      /\ Value(item, "cpu_utilization", 0) > 75,
                   "High CPU Utilization on Primary DB", "High", 90>>,
                 <<Contains(resource, "read")
                      /\ Value(item, "cpu_utilization", 0) > 20,
                   "Elevated CPU on Read Replica", "Moderate", 70>> >>
         [] ns = "elasticache" ->
              << <<Contains(resource, "redis")
                      /\ Value(item, "cache_hit_rate", 100) < 80,
                   "Low Cache Hit Rate", "High", 85>>,
                 <<Value(item, "evictions", 0) > 1000,
                   "High Eviction Count", "High", 90>> >>
         [] ns = "ecs" ->
              << <<\E k \in DOMAIN Value(item, "services", <<>>) :
                       Underprovisioned(item["services"][k]),
                   "Service Underprovisioned", "High", 100>> >>
         [] ns = "opensearch" ->
              << <<Value(item, "cluster_status_red", 0) > 0,
                   "Cluster in Red State", "High", 100>>,
                 <<Value(item, "cluster_status_yellow", 0) > 0,
                   "Cluster in Yellow State", "Moderate", 80>> >>
         [] ns = "cloudformation" ->
              << <<Value(item, "status", "None")
                       \in {"CREATE_FAILED", "ROLLBACK_COMPLETE",
                            "UPDATE_ROLLBACK_COMPLETE"},
                   "Stack in Failed State", "High", 100>> >>
         [] OTHER -> <<>>

\* Issue, strength and confidence of the first rule whose condition holds.
FirstMatch(rules) ==
    LET hits == {k \in DOMAIN rules : rules[k][1]}
    IN IF hits = {} THEN <<>>
       ELSE LET k == CHOOSE h \in hits : \A g \in hits : h <= g
            IN << <<rules[k][2], rules[k][3], rules[k][4]>> >>

RECURSIVE ExpectedFindings(_, _)
ExpectedFindings(list, i) ==
    IF i > Len(list) THEN <<>>
    ELSE FirstMatch(RuleTable(list[i])) \o ExpectedFindings(list, i + 1)

Verdicts(findings) ==
    [k \in DOMAIN findings |->
        <<findings[k].issue, findings[k].strength, findings[k].confidence>>]

\* C7: a rule function returns at most one finding for a snapshot, and the
\* static findings of a list are, snapshot by snapshot, the finding of the
\* first rule of the category's priority order whose condition holds, with
\* that rule's strength and confidence, and nothing for a snapshot no rule
\* of which holds.
C7_FirstMatchingRule ==
    /\ \A i \in DOMAIN results :
          Len(pre_analysis_item(results[i]).findings) <= 1
    /\ StaticReturned =>
          /\ Len(static_findings) <= Len(results)
          /\ Verdicts(static_findings) = ExpectedFindings(results, 1)

\* An ALB snapshot over both thresholds was analysed and only the 5xx
\* finding was returned.
C7_Witness ==
    /\ pc = "temporal"
    /\ Len(results) = 1
    /\ Value(results[1], "namespace", "None") = "alb"
    /\ Value(results[1], "http_5xx_errors", 0) > 20
    /\ Value(results[1], "avg_latency_ms", 0) > 100
    /\ Verdicts(static_findings) = << <<"High 5xx Error Count", "High", 90>> >>

\* The neutral defaults of the metrics a category's rules read.
NeutralDefaults(ns) ==
    CASE ns = "alb" -> [http_5xx_errors |-> 0, avg_latency_ms |-> 0]
      [] ns = "rds" -> [cpu_utilization |-> 0]
      [] ns = "elasticache" -> [cache_hit_rate |-> 100, evictions |-> 0]
      [] ns = "ecs" -> [services |-> <<>>]
      [] ns = "opensearch" ->
           [cluster_status_red |-> 0, cluster_status_yellow |-> 0]
      [] OTHER -> <<>>

\* The snapshot with every absent metric set to its neutral default, the
\* task counts of an ECS snapshot's services included.
WithDefaults(item) ==
    LET ns == Value(item, "namespace", "None")
        filled == item @@ NeutralDefaults(ns)
    IN IF ns = "ecs"
       THEN [filled EXCEPT !["services"] =
                [k \in DOMAIN @ |->
                    @[k] @@ [running_tasks |-> 0, desired_tasks |-> 0]]]
       ELSE filled

AllWithDefaults(list) == [k \in DOMAIN list |-> WithDefaults(list[k])]

\* The snapshot names what a finding about it is filed under.
Identified(item) ==
    /\ "resource" \in DOMAIN item
    /\ \A k \in DOMAIN Value(item, "services", <<>>) :
          "name" \in DOMAIN item["services"][k]

\* C8: an absent metric never makes the static analyzer raise and counts as
\* its neutral default: a rule function gives a snapshot the outcome it gives
\* the snapshot with the defaults filled in, it raises on no snapshot that
\* names its resource, and the static findings of a list are those of the
\* list with the defaults filled in; so an ALB snapshot without
\* http_5xx_errors gets no 5xx finding.
C8_MissingMetricsAreNeutral ==
    /\ \A i \in DOMAIN results :
          LET r == pre_analysis_item(results[i])
          IN /\ r = pre_analysis_item(WithDefaults(results[i]))
             /\ Identified(results[i]) => r.raised = ""
             /\ (Value(results[i], "namespace", "None") = "alb"
                     /\ "http_5xx_errors" \notin DOMAIN results[i])
                   => \A k \in DOMAIN r.findings :
                         r.findings[k].issue # "High 5xx Error Count"
    /\ StaticReturned =>
          static_findings = run_pre_analysis(AllWithDefaults(results)).findings
    /\ StaticRaised =>
          run_pre_analysis(AllWithDefaults(results)).raised # ""

\* A Redis snapshot without a hit rate but over the eviction threshold was
\* analysed: the hit rate counted as 100 and the eviction rule answered.
C8_Witness ==
    /\ pc = "temporal"
    /\ Len(results) = 1
    /\ Value(results[1], "namespace", "None") = "elasticache"
    /\ Contains(Value(results[1], "resource", <<>>), "redis")
    /\ "cache_hit_rate" \notin DOMAIN results[1]
    /\ Verdicts(static_findings) = << <<"High Eviction Count", "High", 90>> >>

\* The snapshot is not one of a category the static analyzer has no rules
\* for.
NotWithoutStaticRules(item) ==
    ~("namespace" \in DOMAIN item /\ item["namespace"] \notin ANALYZER_MAP)

\* The snapshot is not one of a category the temporal analyzer has no rules
\* for.
NotWithoutTemporalRules(item) ==
    ~("namespace" \in DOMAIN item
         /\ item["namespace"] \notin TEMPORAL_ANALYZER_MAP)

\* C9: the snapshots of a category without rules are skipped silently: each
\* analyzer returns for a list what it returns for the list without them,
\* and raises only if it raises on the list without them.
C9_UnregisteredSkipped ==
    /\ StaticReturned =>
          static_findings
             = run_pre_analysis(SelectSeq(results, NotWithoutStaticRules)).findings
    /\ StaticRaised =>
          run_pre_analysis(SelectSeq(results, NotWithoutStaticRules)).raised # ""
    /\ TemporalReturned =>
          temporal_findings
             = analyze(SelectSeq(results, NotWithoutTemporalRules),
                       temporal_lookback_days).findings
    /\ TemporalRaised =>
          analyze(SelectSeq(results, NotWithoutTemporalRules),
                  temporal_lookback_days).raised # ""

\* Both analyzers have returned findings for a list that holds a snapshot of
\* "waf", a category neither has rules for.
C9_Witness ==
    /\ pc = "aggregate"
    /\ \E i \in DOMAIN results : Value(results[i], "namespace", "None") = "waf"
    /\ static_findings # <<>>
    /\ temporal_findings # <<>>

\* C10: an exception a rule function or a trend function raises on a
\* snapshot never leaves run_pre_analysis, temporal analyze or run_analysis.
C10_AnalysisErrorsNotFatal ==
    ~(pc = "raised" /\ traceback \in {"run_pre_analysis", "analyze"})

-----------------------------------------------------------------------------
(* Properties of analyze_trend_with_baseline, checked under SpecCalls *)

\* The samples of the call that has returned: None has none.
CallHistory ==
    IF trend_call.historical_values = <<>> THEN <<>>
    ELSE trend_call.historical_values[1]

\* n * (current - mean) and n * (n - 1) * variance of the call.
CallDeviation ==
    Len(CallHistory) * trend_call.current_value - SumSeq(CallHistory)
CallSpread ==
    Len(CallHistory) * SumSquares(CallHistory)
        - SumSeq(CallHistory) * SumSeq(CallHistory)

\* abs(z_score) >= tenths / 10, for a history that varies: both sides
\* squared and cleared of their denominators.
ZAtLeast(tenths) ==
    100 * CallDeviation * CallDeviation * (Len(CallHistory) - 1)
        >= tenths * tenths * Len(CallHistory) * CallSpread

InBadDirection ==
    \/ CallDeviation > 0 /\ trend_call.higher_is_worse
    \/ CallDeviation < 0 /\ ~trend_call.higher_is_worse

\* What the statistics of the call ask for: a step off a constant history,
\* or a z-score at or beyond the threshold in the bad direction.
Anomalous ==
    IF CallSpread = 0 THEN CallDeviation # 0
    ELSE ZAtLeast(trend_call.threshold_std_dev) /\ InBadDirection

\* C11: whatever the current value, the threshold and the direction, the
\* trend function returns nothing for a history that is absent, empty or
\* shorter than 3 samples, and a history of 3 or more samples is evaluated:
\* the function returns a trend exactly when its statistics ask for one.
C11_InsufficientHistory ==
    pc = "returned" =>
       /\ Len(CallHistory) < 3 => returned[1] = <<>>
       /\ Len(CallHistory) >= 3 =>
             /\ Len(returned[1]) <= 1
             /\ returned[1] # <<>> <=> Anomalous

\* A call with a history of two samples far below the current value has
\* returned nothing.
C11_Witness ==
    /\ pc = "returned"
    /\ Len(CallHistory) = 2
    /\ \A k \in DOMAIN CallHistory :
          trend_call.current_value >= CallHistory[k] + 4
    /\ trend_call.higher_is_worse
    /\ returned[1] = <<>>

\* C12: on a history of 3 or more samples all equal to c the trend function
\* returns one trend of strength High and confidence 0.95 when the current
\* value differs from c, whatever the direction and the threshold, and
\* nothing when it equals c.
C12_ZeroVariance ==
    (/\ pc = "returned"
     /\ Len(CallHistory) >= 3
     /\ \A k \in DOMAIN CallHistory : CallHistory[k] = CallHistory[1])
    => IF trend_call.current_value # CallHistory[1]
       THEN /\ Len(returned[1]) = 1
            /\ returned[1][1].strength = "High"
            /\ returned[1][1].confidence = 95
       ELSE returned[1] = <<>>

\* A call whose current value lies below a constant history, with higher
\* values the bad ones, has returned the High trend.
C12_Witness ==
    /\ pc = "returned"
    /\ Len(CallHistory) >= 3
    /\ \A k \in DOMAIN CallHistory : CallHistory[k] = CallHistory[1]
    /\ trend_call.current_value < CallHistory[1]
    /\ trend_call.higher_is_worse
    /\ Len(returned[1]) = 1
    /\ returned[1][1].confidence = 95

\* C13: on a history of 3 or more samples that varies, a trend is returned
\* if and only if abs(z) >= threshold and z points in the bad direction;
\* it is High when abs(z) >= threshold + 1 and Moderate otherwise, so a
\* z-score of exactly the threshold gives a Moderate trend.
C13_ZScoreRule ==
    (pc = "returned" /\ Len(CallHistory) >= 3 /\ CallSpread # 0)
    => /\ returned[1] # <<>>
             <=> (ZAtLeast(trend_call.threshold_std_dev) /\ InBadDirection)
       /\ returned[1] # <<>> =>
             returned[1][1].strength
                = (IF ZAtLeast(trend_call.threshold_std_dev + 10)
                   THEN "High" ELSE "Moderate")

\* A call whose z-score is exactly the threshold has returned a Moderate
\* trend.
C13_Witness ==
    /\ pc = "returned"
    /\ Len(CallHistory) >= 3
    /\ CallSpread # 0
    /\ 100 * CallDeviation * CallDeviation * (Len(CallHistory) - 1)
          = trend_call.threshold_std_dev * trend_call.threshold_std_dev
               * Len(CallHistory) * CallSpread
    /\ Len(returned[1]) = 1
    /\ returned[1][1].strength = "Moderate"

\* C14: the confidence of a z-score trend is min(0.9 + (abs(z) - threshold)
\* * 0.1, 0.99): in hundredths it lies in 90..99, it is 90 + k or more
\* exactly when abs(z) - threshold >= k / 10, so it is 99 exactly when
\* abs(z) - threshold >= 0.9, and a current value further from the mean on
\* the same side never has a lower confidence.
C14_Confidence ==
    (/\ pc = "returned"
     /\ Len(CallHistory) >= 3
     /\ CallSpread # 0
     /\ returned[1] # <<>>)
    => /\ returned[1][1].confidence \in 90..99
       /\ \A k \in 0..9 :
             returned[1][1].confidence >= 90 + k
                <=> ZAtLeast(trend_call.threshold_std_dev + k)
       /\ \A further \in CurrentValues :
             (IF CallDeviation > 0
              THEN further >= trend_call.current_value
              ELSE further <= trend_call.current_value)
             => LET r == trend_of_call(
                            [trend_call EXCEPT !.current_value = further])
                IN /\ r # <<>>
                   /\ r[1].confidence >= returned[1][1].confidence

\* The call with history [10, 10, 11, 9, 10] and current value 15 at the
\* default threshold has returned a High trend of confidence 0.99.
C14_Witness ==
    /\ pc = "returned"
    /\ CallHistory = <<10, 10, 11, 9, 10>>
    /\ trend_call.current_value = 15
    /\ trend_call.threshold_std_dev = DefaultThreshold
    /\ trend_call.higher_is_worse
    /\ Len(returned[1]) = 1
    /\ returned[1][1].strength = "High"
    /\ returned[1][1].confidence = 99

-----------------------------------------------------------------------------
(* Properties of the temporal analysis and of the aggregation *)

\* The keys of the metric a category's trend function reads, and of its
\* history.
TrendKeys(item) ==
    IF Value(item, "namespace", "None") = "alb"
    THEN <<"http_5xx_errors", "http_5xx_errors_history">>
    ELSE <<"cpu_utilization", "cpu_utilization_history">>

HistoryOf(item) == Value(item, TrendKeys(item)[2], <<>>)

\* The trend of a snapshot's metric at a threshold of tenths / 10.
TrendAt(item, tenths) ==
    analyze_trend_with_baseline(Value(item, TrendKeys(item)[1], 0),
        HistoryOf(item), temporal_lookback_days, tenths, TRUE)

\* C15: the threshold is configurable: whatever threshold T is configured,
\* the trend function of a snapshot's category emits a finding exactly when
\* abs(z) >= T in the bad direction.
C15_ThresholdConfigurable ==
    (/\ TemporalReturned
     /\ Len(results) = 1
     /\ Value(results[1], "namespace", "None") \in TEMPORAL_ANALYZER_MAP
     /\ "resource" \in DOMAIN results[1])
    => \A configured \in ThresholdArgs :
          temporal_findings # <<>> <=> TrendAt(results[1], configured) # <<>>

\* The snapshot yields a temporal finding.
YieldsTrend(item) ==
    temporal_item(item, temporal_lookback_days).findings # <<>>

\* C16: every temporal finding carries data_quality_notice; the notice states
\* the available and the expected number of samples when the history of the
\* finding's snapshot is shorter than settings.temporal_lookback_days, and is
\* empty otherwise.
C16_DataQualityNotice ==
    TemporalReturned =>
       LET sources == SelectSeq(results, YieldsTrend)
       IN /\ Len(temporal_findings) = Len(sources)
          /\ \A k \in DOMAIN temporal_findings :
                /\ "data_quality_notice" \in DOMAIN temporal_findings[k]
                /\ temporal_findings[k].data_quality_notice
                      = (IF Len(HistoryOf(sources[k])) < temporal_lookback_days
                         THEN <<Len(HistoryOf(sources[k])),
                                temporal_lookback_days>>
                         ELSE <<>>)

\* A finding was returned for a history of as many samples as expected,
\* without a notice.
C16_Witness ==
    /\ pc = "aggregate"
    /\ Len(results) = 1
    /\ Len(HistoryOf(results[1])) = temporal_lookback_days
    /\ Len(temporal_findings) = 1
    /\ temporal_findings[1].data_quality_notice = <<>>

\* C17: the temporal analyzer is idempotent and keeps no state between
\* calls: the calls of analyze on one list with the same settings all return
\* the same (the same findings in the same order, or the same exception),
\* what a single run over the list gives, and no step of a call changes the
\* list or the settings.
C17_AnalyzeIdempotent ==
    /\ [](pc = "call_analyze" =>
            \A i \in DOMAIN returned :
               /\ returned[i] = returned[1]
               /\ returned[i] = analyze(results, temporal_lookback_days))
    /\ [][pc = "call_analyze" =>
             /\ results' = results
             /\ temporal_lookback_days' = temporal_lookback_days]_vars

\* analyze was called twice on a list and returned findings both times, the
\* second call having started after the first had returned.
C17_Witness ==
    /\ pc = "call_analyze"
    /\ call_i = 0
    /\ Len(returned) >= 2
    /\ returned[1].findings # <<>>
    /\ returned[2].findings # <<>>

\* run_analysis has aggregated the findings of both analyzers.
Aggregated ==
    /\ llm_provider
    /\ pc \in {"summarize", "report", "done"} \/ ReportingRaised

\* C18: the aggregated list is the static findings in their order followed
\* by the temporal findings in theirs: its length is the sum of both lengths
\* and nothing is dropped, so a static and a temporal finding about the same
\* resource both appear.
C18_PureConcatenation ==
    Aggregated =>
       /\ Len(all_findings) = Len(static_findings) + Len(temporal_findings)
       /\ \A k \in DOMAIN static_findings :
             all_findings[k] = static_findings[k]
       /\ \A k \in DOMAIN temporal_findings :
             all_findings[Len(static_findings) + k] = temporal_findings[k]

\* One snapshot gave a static and a temporal finding, and the aggregated list
\* holds the static one and then the temporal one.
C18_Witness ==
    /\ pc = "summarize"
    /\ Len(results) = 1
    /\ Len(all_findings) = 2
    /\ all_findings[1].finding_type = "static"
    /\ all_findings[2].finding_type = "temporal"
    /\ all_findings[2].resource_id = results[1]["resource"]

\* C19: the summarizer is called only with a non-empty list of findings:
\* when the aggregated list is empty it is not called and the summary is the
\* fixed message.
C19_NoSummarizerOnEmpty ==
    /\ llm_calls > 0 => all_findings # <<>>
    /\ pc = "summarize" => all_findings # <<>>
    /\ (Aggregated /\ all_findings = <<>>)
          => /\ llm_calls = 0
             /\ summary = "No significant issues"

\* A report with snapshots but nothing to find was analysed to its end
\* without a call of the summarizer.
C19_Witness ==
    /\ pc = "done"
    /\ llm_provider
    /\ results # <<>>
    /\ all_findings = <<>>
    /\ llm_calls = 0
    /\ summary = "No significant issues"

\* The snapshots of the list differ pairwise in (namespace, resource).
DistinctResources ==
    \A i, j \in DOMAIN results :
       i # j => \/ Value(results[i], "namespace", "None")
                     # Value(results[j], "namespace", "None")
                \/ Value(results[i], "resource", <<>>)
                     # Value(results[j], "resource", <<>>)

\* C20: on a list whose snapshots differ pairwise in (namespace, resource),
\* no two findings of the static analyzer agree in category, resource_id
\* and issue, and no two findings of the temporal analyzer agree in
\* resource_id and metric.
C20_FindingsUnique ==
    /\ (StaticReturned /\ DistinctResources) =>
          \A i, j \in DOMAIN static_findings :
             i # j => <<static_findings[i].service,
                        static_findings[i].resource_id,
                        static_findings[i].issue>>
                      # <<static_findings[j].service,
                          static_findings[j].resource_id,
                          static_findings[j].issue>>
    /\ (TemporalReturned /\ DistinctResources) =>
          \A i, j \in DOMAIN temporal_findings :
             i # j => <<temporal_findings[i].resource_id,
                        temporal_findings[i].metric>>
                      # <<temporal_findings[j].resource_id,
                          temporal_findings[j].metric>>

-----------------------------------------------------------------------------
(* Properties of the findings and of the static analyzer's loop *)

Strengths == {"Low", "Moderate", "High"}

\* The finding has the type of its analyzer, a strength of the enumeration
\* and a confidence in [0, 1] (0..100 hundredths).
FindingModel(finding, type) ==
    /\ finding.finding_type = type
    /\ finding.strength \in Strengths
    /\ finding.confidence \in 0..100

\* C21: every finding of run_pre_analysis has finding_type 'static', every
\* finding of the temporal analyzer has finding_type 'temporal', and each has
\* a strength among Low, Moderate, High and a confidence in [0, 1].
C21_FindingModel ==
    /\ \A k \in DOMAIN static_findings :
          FindingModel(static_findings[k], "static")
    /\ \A k \in DOMAIN temporal_findings :
          FindingModel(temporal_findings[k], "temporal")

\* Both analyzers returned findings, of both strengths.
C21_Witness ==
    /\ pc = "aggregate"
    /\ \E k \in DOMAIN static_findings : static_findings[k].strength = "Moderate"
    /\ \E k \in DOMAIN static_findings : static_findings[k].strength = "High"
    /\ \E k \in DOMAIN temporal_findings : temporal_findings[k].strength = "High"
    /\ \E k \in DOMAIN temporal_findings :
          temporal_findings[k].strength = "Moderate"

\* A rule function returns a finding for the snapshot.
YieldsStatic(item) == pre_analysis_item(item).findings # <<>>

\* C22: run_pre_analysis returns the findings of the snapshots that have
\* one, in the order of those snapshots, and nothing for the others: the
\* number of findings never exceeds the number of snapshots.
C22_OrderedConcatenation ==
    StaticReturned =>
       LET sources == SelectSeq(results, YieldsStatic)
       IN /\ Len(static_findings) <= Len(results)
          /\ Len(static_findings) = Len(sources)
          /\ \A k \in DOMAIN static_findings :
                <<static_findings[k]>> = pre_analysis_item(sources[k]).findings

\* Two snapshots gave two findings, which differ, the first snapshot's
\* before the second's.
C22_Witness ==
    /\ pc = "temporal"
    /\ Len(results) >= 2
    /\ Len(static_findings) = 2
    /\ static_findings[1] # static_findings[2]
    /\ <<static_findings[1]>> = pre_analysis_item(results[1]).findings

-----------------------------------------------------------------------------
(* Properties of the collect command's data flow, checked under Spec *)

\* The step appends the snapshot of one finished future to results, in the
\* loop over as_completed, which the main thread runs; no worker finishes or
\* starts a task in the same step.
MainThreadAppends ==
    /\ pc = "as_completed"
    /\ fstate' = fstate
    /\ \E f \in unyielded :
          /\ fstate[f] = "FINISHED_RESULT"
          /\ unyielded' = unyielded \ {f}
          /\ results' = Append(results, fresult[f][1])

\* C23: results has one writer: every step that changes it is a step of the
\* main thread's loop over as_completed that appends the snapshot of one
\* finished task not yet yielded, so no worker thread writes it and no two
\* writes coincide; once the pool has drained, results holds the snapshot of
\* every task that succeeded exactly once (a snapshot as many times as tasks
\* returned it) and nothing else.
C23_SingleWriter ==
    /\ [][results' # results => MainThreadAppends]_vars
    /\ [](AfterCollection =>
            /\ Len(results) = Cardinality(Succeeded)
            /\ \A i \in Succeeded :
                  Count(results, fresult[i][1])
                     = Cardinality({j \in Succeeded : fresult[j] = fresult[i]}))

\* Two tasks succeeded, their snapshots were appended in the order of their
\* completion, the reverse of their submission, and the pool has drained.
C23_Witness ==
    /\ pc = "analyze"
    /\ Cardinality(Succeeded) = 2
    /\ Len(results) = 2
    /\ results[1] = fresult[2][1]
    /\ results[2] = fresult[1][1]

\* run_analysis is running, or has returned to a command about to write
\* its reports.
InAnalysis ==
    pc \in {"analyze", "temporal", "aggregate", "summarize", "report"}

\* C24: the snapshots are immutable after collection: no step of the
\* analysis or of the report writing changes a field of a snapshot or the
\* order of the list, so both analyzers read the same list (the findings
\* of each are those of the list as it stands) and the 'results' of the
\* report are the collected snapshots, each the snapshot a task returned.
C24_SnapshotsImmutable ==
    /\ [][InAnalysis => results' = results]_vars
    /\ [](pc = "aggregate" =>
            /\ static_findings = run_pre_analysis(results).findings
            /\ temporal_findings
                  = analyze(results, temporal_lookback_days).findings)
    /\ [](pc = "done" =>
            /\ run_payload[1].results = results
            /\ \A k \in DOMAIN results :
                  \E i \in Succeeded : results[k] = fresult[i][1])

\* A run was analysed by both analyzers, both with findings, and the report
\* holds the two collected snapshots.
C24_Witness ==
    /\ pc = "done"
    /\ static_findings # <<>>
    /\ temporal_findings # <<>>
    /\ Len(results) = 2
    /\ run_payload[1].results = results

\* The multiset of the elements of a sequence.
BagOf(seq) ==
    [x \in {seq[k] : k \in DOMAIN seq} |-> Count(seq, x)]

IsSucceeded(i) == fstate[i] = "FINISHED_RESULT"

\* The snapshots of the tasks that succeeded, in the order of submission:
\* the list results would be if the tasks completed in that order.
InSubmissionOrder ==
    LET succeeded == SelectSeq([i \in DOMAIN futures |-> i], IsSucceeded)
    IN [k \in DOMAIN succeeded |-> fresult[succeeded[k]][1]]

\* C25: the stages after the collection do not depend on the order in which
\* the tasks completed: whatever that order, each analyzer's findings are,
\* as a multiset, those it gives on the same snapshots in the order of
\* submission, and the summarizer is called exactly when those are not all
\* empty.
C25_OrderIndependence ==
    /\ pc = "aggregate" =>
          /\ BagOf(static_findings)
                = BagOf(run_pre_analysis(InSubmissionOrder).findings)
          /\ BagOf(temporal_findings)
                = BagOf(analyze(InSubmissionOrder,
                                temporal_lookback_days).findings)
    /\ (pc = "done" /\ llm_provider) =>
          (llm_calls = 1
             <=> run_pre_analysis(InSubmissionOrder).findings
                   \o analyze(InSubmissionOrder,
                              temporal_lookback_days).findings # <<>>)

\* Two tasks completed in the reverse of the order of their submission, the
\* second's snapshot has no finding and the first's has, and the run was
\* analysed to its end.
C25_Witness ==
    /\ pc = "done"
    /\ llm_calls = 1
    /\ Len(results) = 2
    /\ results # InSubmissionOrder
    /\ pre_analysis_item(results[1]).findings = <<>>
    /\ temporal_item(results[1], temporal_lookback_days).findings = <<>>
    /\ Len(static_findings) = 1
    /\ Len(temporal_findings) = 1

-----------------------------------------------------------------------------
(* Termination of the collection phase, checked under SpecFair *)

\* The collection phase is over: the with statement was left, by its end or
\* by an exception.
CollectionOver == pc \notin {"start", "discover", "as_completed", "unwinding"}

\* C26: under fair scheduling, with every discover() and collect() call
\* returning or raising, every submitted task eventually reaches a terminal
\* state and the collection phase eventually ends, whatever the pool size
\* (at least 1) and the number of tasks, more tasks than workers included:
\* eventually the with statement has been left, after which nothing is
\* submitted, with every submitted task finished.
C26_CollectionTerminates ==
    <>(CollectionOver /\ \A i \in DOMAIN futures : IsFinished(fstate[i]))

\* The collection phase of a run with more tasks than worker threads has
\* ended, every task in a terminal state.
C26_Witness ==
    /\ pc = "analyze"
    /\ Len(futures) > max_workers
    /\ max_workers >= 1
    /\ \A i \in DOMAIN futures : IsFinished(fstate[i])

-----------------------------------------------------------------------------
(* The collectors' snapshots against the static rules, checked under Spec *)

\* The keys of the snapshot a category's rule function reads.
RuleReads(ns) ==
    CASE ns = "alb" -> {"resource", "http_5xx_errors", "avg_latency_ms"}
      [] ns = "rds" -> {"resource", "cpu_utilization"}
      [] ns = "elasticache" -> {"resource", "cache_hit_rate", "evictions"}
      [] ns = "ecs" -> {"resource", "services"}
      [] ns = "opensearch" -> {"resource", "cluster_status_red",
                               "cluster_status_yellow"}
      [] ns = "cloudformation" -> {"resource", "status"}
      [] OTHER -> {}

\* C27: for every category with a static rule function, every key the rule
\* function reads is a key of the snapshot the category's collector returned,
\* and a collected CloudFormation stack in a failed state has a 'Stack in
\* Failed State' finding.
C27_CollectorRuleAgreement ==
    /\ \A k \in DOMAIN results :
          results[k].namespace \in ANALYZER_MAP
             => RuleReads(results[k].namespace) \subseteq DOMAIN results[k]
    /\ pc = "temporal" =>
          \A k \in DOMAIN results :
             (/\ results[k].namespace = "cloudformation"
              /\ results[k].stack_status \in failed_states)
             => \E j \in DOMAIN static_findings :
                   /\ static_findings[j].issue = "Stack in Failed State"
                   /\ static_findings[j].resource_id = results[k].resource

-----------------------------------------------------------------------------
(* Properties of run_analysis inside the collect command, checked under Spec *)

\* The summaries run_analysis returns when the call of the summarizer raised.
ErrorSummaries == {"Error: The model was not found", "Error during analysis"}

\* C28: a failure of the summarizer never aborts the run: the step that
\* calls it ends with run_analysis returning a summary, the 'Error ...'
\* text when the call raised, and never with an exception; the reports are
\* then written with that summary and with every collected snapshot.
C28_SummarizerFailureContained ==
    /\ [][pc = "summarize" =>
             /\ pc' = "report"
             /\ exc' = ""
             /\ summary' \in ErrorSummaries \cup {"response content"}]_vars
    /\ [](traceback # "chat")
    /\ [][(pc = "report" /\ llm_calls > 0) =>
             /\ pc' = "done"
             /\ reports' = {"json", "markdown"}]_vars
    /\ []((pc = "done" /\ llm_calls > 0) =>
             /\ run_payload[1].analysis_summary = summary
             /\ run_payload[1].results = results
             /\ Len(results) = Cardinality(Succeeded))

\* The call of the summarizer raised, and the reports were written with the
\* error text as the summary and with the collected snapshots.
C28_Witness ==
    /\ pc = "done"
    /\ llm_calls = 1
    /\ summary = "Error during analysis"
    /\ reports = {"json", "markdown"}
    /\ run_payload[1].analysis_summary = "Error during analysis"
    /\ Len(run_payload[1].results) = 2

-----------------------------------------------------------------------------
(* The direction of the tracked metrics, checked under SpecReanalyze *)

\* The snapshot's metric is at or below the mean of a history whose
\* standard deviation is not zero.
AtOrBelowMean(item) ==
    /\ Value(item, "namespace", "None") \in TEMPORAL_ANALYZER_MAP
    /\ Len(HistoryOf(item)) >= 2
    /\ Spread(HistoryOf(item)) # 0
    /\ Deviation(Value(item, TrendKeys(item)[1], 0), HistoryOf(item)) <= 0

\* C29: the tracked metrics are higher-is-worse: no temporal finding is
\* about a snapshot whose current value is at or below the mean of a
\* history with non-zero standard deviation, however far below.
C29_HigherIsWorse ==
    /\ \A i \in DOMAIN results :
          AtOrBelowMean(results[i]) => ~YieldsTrend(results[i])
    /\ TemporalReturned =>
          LET sources == SelectSeq(results, YieldsTrend)
          IN /\ Len(temporal_findings) = Len(sources)
             /\ \A k \in DOMAIN sources : ~AtOrBelowMean(sources[k])

\* The temporal analyzer returned nothing for a database whose CPU
\* utilization dropped to 3 standard deviations below the mean.
C29_Witness ==
    /\ pc = "aggregate"
    /\ Len(results) = 1
    /\ results[1].namespace = "rds"
    /\ "resource" \in DOMAIN results[1]
    /\ Value(results[1], "cpu_utilization", 0) = 16
    /\ HistoryOf(results[1]) = <<18, 19, 20>>
    /\ temporal_findings = <<>>

-----------------------------------------------------------------------------
(* The gate of run_analysis, checked under SpecReanalyze *)

\* run_analysis was called and has returned or raised.
AnalysisEnded ==
    \/ pc \in {"report", "done"}
    \/ pc = "raised" /\ traceback \in {"run_pre_analysis", "analyze"}
    \/ ReportingRaised

\* C30: the analysis is gated on settings.llm_provider: when it is unset
\* run_analysis returns '(AI analysis disabled)' and neither analyzer nor the
\* summarizer is called, so there are no findings; when it is set, each
\* analyzer is called exactly once and runs over the full snapshot list.
C30_AnalysisGated ==
    /\ ~llm_provider =>
          /\ analyzer_calls = <<0, 0>>
          /\ llm_calls = 0
          /\ static_findings \o temporal_findings \o all_findings = <<>>
          /\ AnalysisEnded => summary = "(AI analysis disabled)"
    /\ (llm_provider /\ AnalysisEnded) =>
          /\ analyzer_calls = <<1, 1>>
          /\ run_pre_analysis(results) = Return(static_findings)
          /\ analyze(results, temporal_lookback_days)
                = Return(temporal_findings)

=============================================================================
